---- MODULE Spec2Model ----
(***************************************************************************)
(* A model of electron-effect-rpc: the response-envelope protocol          *)
(* (src/src/protocol.ts), the host-side RPC endpoint and the bounded event *)
(* publisher (src/src/main.ts), and the caller-side RPC client             *)
(* (createRpcClient, src/src/testing.ts lines 35-311).                     *)
(*                                                                         *)
(* JavaScript values are records with a kind field k:                      *)
(*   Num(n), Str(s), Bool(b), Undef, Null, Obj(f) with f a function from   *)
(*   property names to values, ErrorOf(name, tag, message) for instances   *)
(*   of Error, Bare for an object without a prototype                      *)
(*   (Object.create(null)), InterruptCause for an Effect Cause that holds  *)
(*   no failure and no defect.                                             *)
(* An operation that can throw is a record [ok, value]: its result when ok,*)
(* the exception thrown otherwise.                                         *)
(***************************************************************************)
EXTENDS Integers, Sequences, FiniteSets, TLC

(***************************************************************************)
(* The field names of the model's records.  TLC stores the fields of a     *)
(* record in the order in which their names first occur in the module;     *)
(* every record below lists its fields in this order, so that each record  *)
(* is stored exactly as it is written.                                     *)
(***************************************************************************)
FieldNames ==
    [k |-> 1, ok |-> 2, done |-> 3, threw |-> 4, kind |-> 5, type |-> 6,
     pc |-> 7, op |-> 8, hook |-> 9, scope |-> 10, _tag |-> 11,
     name |-> 12, tag |-> 13, code |-> 14, message |-> 15, text |-> 16,
     method |-> 17, event |-> 18, n |-> 19, s |-> 20, f |-> 21, a |-> 22,
     b |-> 23, sum |-> 24, value |-> 25, error |-> 26, cause |-> 27,
     defect |-> 28, fiberId |-> 29, data |-> 30, raw |-> 31, beh |-> 32,
     input |-> 33, args |-> 34, body |-> 35, exit |-> 36, payload |-> 37,
     effect |-> 38, response |-> 39, encoded |-> 40, out |-> 41,
     result |-> 42, seen |-> 43, handled |-> 44, removed |-> 45,
     last |-> 46, queued |-> 47, dropped |-> 48, reason |-> 49,
     running |-> 50, disposed |-> 51, handlers |-> 52, queue |-> 53,
     drainScheduled |-> 54, evicted |-> 55, sendCalled |-> 56,
     sendOk |-> 57, sendThrew |-> 58, behind |-> 59, dispatched |-> 60,
     endRunning |-> 61, outcome |-> 62, settled |-> 63, envelope |-> 64,
     methods |-> 65, implementations |-> 66, attempted |-> 67,
     reentered |-> 68, next |-> 69, stopped |-> 70, pubRunning |-> 71,
     pubDisposed |-> 72, microtasks |-> 73, pubLast |-> 74,
     reentries |-> 75, depth |-> 76, disposeCalled |-> 77,
     registrarThrew |-> 78, handleCalls |-> 79, removeCalls |-> 80,
     kit |-> 81, handle |-> 82, subscriptions |-> 83,
     subscribeCalls |-> 84, unsubscribeCalls |-> 85, published |-> 86]

VARIABLES
    \* ---- endpoint listeners (handleRpcRequest), one record per inbound call
    calls,         \* call id -> [pc, method, raw, beh, input, out]
    epDiag,        \* how the endpoint's diagnostics callbacks behave
    epDiagLog,     \* the contexts handed to the endpoint's diagnostics callbacks
    completionOrder, \* the call ids in the order their listeners returned
    \* ---- endpoint lifecycle (createRpcEndpoint start/stop/dispose)
    running,       \* let running
    disposed,      \* let disposed
    handlers,      \* the channels the registrar (ipc) currently holds a handler for
    lastOp,        \* the last lifecycle call, how it ended, what it asked of the registrar
    disposeCalled, \* dispose() has been called at least once
    handleCalls,   \* every channel ipc.handle was called with, in order
    removeCalls,   \* every channel ipc.removeHandler was called with, in order
    lifecycleOps,  \* number of calls made so far on the endpoint or on the
                   \* handle, those the registrar made from inside not counted
    registrarThrew,\* ipc.handle or ipc.removeHandler has thrown at least once
    reentries,     \* number of calls the registrar has made from inside handle
                   \* or removeHandler so far
    \* ---- event publisher (createEventPublisher)
    queue,         \* const queue
    dropped,       \* let dropped
    pubRunning,    \* let running
    pubDisposed,   \* let disposed
    draining,      \* let draining
    drainScheduled,\* let drainScheduled
    microtasks,    \* number of drain callbacks queued with queueMicrotask
    pubDiag,       \* how the publisher's diagnostics callbacks behave
    pubSeen,       \* the contexts handed to diagnostics callbacks by the last step
    pubLast,       \* the last publisher call and whether it threw
    published,     \* the payloads of the publish() calls made so far, in order
    sent,          \* the payloads webContents.send accepted, in order
    evicted,       \* the payloads enqueue evicted because the queue was full
    drained,       \* some drain pass has taken an item from the queue
    pass,          \* bookkeeping of the drain pass in progress or last finished,
                   \* and how its latest dispatch ended
    pending,       \* the items whose enqueue is inside its call of
                   \* onDroppedEvent, the innermost call last
    \* ---- RPC client (createRpcClient), one record per call made by a caller
    ccalls,        \* call id -> [pc, method, args, encoded, raw, out, settled,
                   \*             envelope]
    decodeMode,    \* const decodeMode = options.rpcDecodeMode ?? "envelope"
    clDiag,        \* how the client's diagnostics callbacks behave
    clDiagLog,     \* the contexts handed to the client's diagnostics callbacks
    invocations,   \* the (method, payload) pairs handed to options.invoke, in order
    \* ---- constructors (createEventPublisher, createRpcEndpoint)
    created,       \* the constructor calls made so far, in order: the input and
                   \* what the constructor returned or threw
    \* ---- the handle of createIpcKit(...).main()
    kitLast,       \* the last call on the handle: the component calls it made
                   \* and what it threw
    \* ---- event subscriber (createEventSubscriber)
    subscriptions, \* const subscriptions: the transport unsubscribe functions
                   \* in the Set, in insertion order
    subscribeCalls,\* number of subscribe() calls made so far; the n-th call's
                   \* transport unsubscribe function is n
    unsubscribeCalls, \* transport unsubscribe function -> times it was invoked
    unsubThrows,   \* the transport unsubscribe functions that throw
    subLast        \* the last subscriber call and what it threw

vars == <<calls, epDiag, epDiagLog, completionOrder,
          running, disposed, handlers, lastOp, disposeCalled, handleCalls,
          removeCalls, lifecycleOps, registrarThrew, reentries,
          queue, dropped, pubRunning, pubDisposed, draining, drainScheduled,
          microtasks, pubDiag, pubSeen, pubLast, published, sent, evicted,
          drained, pass, pending,
          ccalls, decodeMode, clDiag, clDiagLog, invocations,
          created,
          kitLast,
          subscriptions, subscribeCalls, unsubscribeCalls, unsubThrows, subLast>>

listenerVars == <<calls, epDiag, epDiagLog, completionOrder>>
endpointVars == <<running, disposed, handlers, lastOp, disposeCalled,
                  handleCalls, removeCalls, lifecycleOps, registrarThrew,
                  reentries>>
publisherVars == <<queue, dropped, pubRunning, pubDisposed, draining,
                   drainScheduled, microtasks, pubDiag, pubSeen, pubLast,
                   published, sent, evicted, drained, pass, pending>>
clientVars == <<ccalls, decodeMode, clDiag, clDiagLog, invocations>>
constructionVars == <<created>>
kitVars == <<kitLast>>
subscriberVars == <<subscriptions, subscribeCalls, unsubscribeCalls, unsubThrows,
                    subLast>>

\* ------------------------------------------------------------------------
\* Bounds of the model
\* ------------------------------------------------------------------------
MaxCalls == 2
MaxClientCalls == 1
MaxLifecycleOps == 4
MaxReentries == 2
MaxKitCalls == 3
MaxKitReentries == 1
MaxPublish == 3
MaxNestedPublish == 1
QueueCap == 2
MaxConstructions == 2
MaxSubscriptions == 3
MaxSubscriberReentries == 2

\* ------------------------------------------------------------------------
\* JavaScript values
\* ------------------------------------------------------------------------
Num(n) == [k |-> "num", n |-> n]
Str(s) == [k |-> "str", s |-> s]
Bool(b) == [k |-> "bool", b |-> b]
Undef == [k |-> "undef"]
Null == [k |-> "null"]
Obj(f) == [k |-> "obj", f |-> f]
ErrorOf(name, tag, message) ==
    [k |-> "error", name |-> name, tag |-> tag, message |-> message]
Bare == [k |-> "bare"]
InterruptCause == [k |-> "cause", text |-> "All fibers interrupted without errors."]

\* value[key] for a property read on any value
Get(value, key) ==
    CASE value.k = "obj" -> IF key \in DOMAIN value.f THEN value.f[key] ELSE Undef
      [] value.k = "error" ->
            CASE key = "_tag" -> value.tag
              [] key = "name" -> Str(value.name)
              [] key = "message" -> Str(value.message)
              [] OTHER -> Undef
      [] OTHER -> Undef

\* String(value) throws for an object that has neither toString nor valueOf
ConversionError ==
    ErrorOf("TypeError", Undef, "Cannot convert object to primitive value")

CanString(value) == value.k # "bare"

\* String(value), for a value it can convert
StringOf(value) ==
    CASE value.k = "str" -> value.s
      [] value.k = "num" -> ToString(value.n)
      [] value.k = "bool" -> IF value.b THEN "true" ELSE "false"
      [] value.k = "undef" -> "undefined"
      [] value.k = "null" -> "null"
      [] value.k = "obj" -> "[object Object]"
      [] value.k = "error" -> value.name \o ": " \o value.message
      [] value.k = "cause" -> value.text

\* ------------------------------------------------------------------------
\* protocol.ts
\* ------------------------------------------------------------------------
hasOwn(record, key) == record.k = "obj" /\ key \in DOMAIN record.f

isRecord(value) == value.k \in {"obj", "error", "cause", "bare"}

isString(value) == value.k = "str"

\* formatUnknown(value): the text, or the TypeError String(value) throws
formatUnknown(value) ==
    IF value.k = "error" THEN [ok |-> TRUE, value |-> value.message]
    ELSE IF CanString(value) THEN [ok |-> TRUE, value |-> StringOf(value)]
    ELSE [ok |-> FALSE, value |-> ConversionError]

extractErrorTag(error) ==
    IF isRecord(error) /\ isString(Get(error, "_tag"))
    THEN Get(error, "_tag").s
    ELSE IF error.k = "error" /\ Len(error.name) > 0
         THEN error.name
         ELSE "RpcError"

\* toDefectEnvelope(cause, prefix): the envelope, or the exception of
\* formatUnknown
toDefectEnvelope(cause, prefix) ==
    LET causeText == formatUnknown(cause)
    IN IF ~causeText.ok
       THEN causeText
       ELSE [ok |-> TRUE,
             value |-> Obj([type |-> Str("defect"),
                            message |-> Str(IF prefix # ""
                                            THEN prefix \o ": " \o causeText.value
                                            ELSE causeText.value),
                            cause |-> Str(causeText.value)])]

\* The diagnostics callback of a component is absent, returns, or throws.
DiagModes == {"absent", "returns", "throws"}

\* safelyCall without its try block: the exception of the callback leaves it
safelyCallPropagates(callback, context) ==
    [threw |-> callback = "throws",
     seen |-> IF callback = "absent" THEN <<>> ELSE <<context>>]

\* safelyCall(callback, context): the contexts the callback received and
\* whether an exception leaves safelyCall.
safelyCall(callback, context) ==
    [threw |-> FALSE,
     seen |-> IF callback = "absent" THEN <<>> ELSE <<context>>]

\* parseRpcResponseEnvelope that returns a defect envelope without its cause
parseRpcResponseEnvelopeDropsCause(value) ==
    IF ~isRecord(value) \/ ~isString(Get(value, "type"))
    THEN Null
    ELSE CASE Get(value, "type").s = "success" ->
                IF ~hasOwn(value, "data")
                THEN Null
                ELSE Obj([type |-> Str("success"), data |-> Get(value, "data")])
           [] Get(value, "type").s = "failure" ->
                IF ~isRecord(Get(value, "error"))
                   \/ ~isString(Get(Get(value, "error"), "tag"))
                   \/ ~hasOwn(Get(value, "error"), "data")
                THEN Null
                ELSE Obj([type |-> Str("failure"),
                          error |-> Obj([tag |-> Get(Get(value, "error"), "tag"),
                                         data |-> Get(Get(value, "error"), "data")])])
           [] Get(value, "type").s = "defect" ->
                IF ~isString(Get(value, "message"))
                THEN Null
                ELSE Obj([type |-> Str("defect"), message |-> Get(value, "message")])
           [] OTHER -> Null

\* parseRpcResponseEnvelope that takes a missing data key for undefined data
parseRpcResponseEnvelopeLenient(value) ==
    IF ~isRecord(value) \/ ~isString(Get(value, "type"))
    THEN Null
    ELSE CASE Get(value, "type").s = "success" ->
                Obj([type |-> Str("success"), data |-> Get(value, "data")])
           [] Get(value, "type").s = "failure" ->
                IF ~isRecord(Get(value, "error"))
                   \/ ~isString(Get(Get(value, "error"), "tag"))
                THEN Null
                ELSE Obj([type |-> Str("failure"),
                          error |-> Obj([tag |-> Get(Get(value, "error"), "tag"),
                                         data |-> Get(Get(value, "error"), "data")])])
           [] Get(value, "type").s = "defect" ->
                IF ~isString(Get(value, "message"))
                THEN Null
                ELSE Obj([type |-> Str("defect"),
                          message |-> Get(value, "message"),
                          cause |-> Get(value, "cause")])
           [] OTHER -> Null

\* parseRpcResponseEnvelope(value): the envelope, or Null
parseRpcResponseEnvelope(value) ==
    IF ~isRecord(value) \/ ~isString(Get(value, "type"))
    THEN Null
    ELSE CASE Get(value, "type").s = "success" ->
                IF ~hasOwn(value, "data")
                THEN Null
                ELSE Obj([type |-> Str("success"), data |-> Get(value, "data")])
           [] Get(value, "type").s = "failure" ->
                IF ~isRecord(Get(value, "error"))
                   \/ ~isString(Get(Get(value, "error"), "tag"))
                THEN Null
                ELSE IF ~hasOwn(Get(value, "error"), "data")
                     THEN Null
                     ELSE Obj([type |-> Str("failure"),
                               error |-> Obj([tag |-> Get(Get(value, "error"), "tag"),
                                              data |-> Get(Get(value, "error"), "data")])])
           [] Get(value, "type").s = "defect" ->
                IF ~isString(Get(value, "message"))
                THEN Null
                ELSE Obj([type |-> Str("defect"),
                          message |-> Get(value, "message"),
                          cause |-> Get(value, "cause")])
           [] OTHER -> Null

\* ------------------------------------------------------------------------
\* The schema codec (@effect/schema) on the schemas of the contract under
\* test: Add(req {a, b: Number}, res {sum: Number}, NoError) and
\* Fail(req {}, res {ok: Boolean}, err DomainError).
\* ------------------------------------------------------------------------
\* How a ParseError's text shows the value that did not match: a string in
\* quotes, an object without properties as {}, an Error by its String(),
\* anything else by String().  An object with properties is shown by its
\* properties as the model writes them.
formatActual(value) ==
    CASE value.k = "str" -> "\"" \o value.s \o "\""
      [] value.k = "bare" -> "{}"
      [] value.k = "obj" ->
            IF DOMAIN value.f = {} THEN "{}" ELSE ToString(value.f)
      [] OTHER -> StringOf(value)

\* How a ParseError's text names the schema: S.Null is null and S.Never is
\* never; the schemas of structs and classes stand under their names here
SchemaText(schema) ==
    CASE schema = "Null" -> "null"
      [] schema = "Never" -> "never"
      [] OTHER -> schema

\* The ParseError the codec throws for a value that does not match a schema:
\* its text names what was expected and the actual value
ParseError(schema, actual) ==
    ErrorOf("ParseError", Str("ParseError"),
            "Expected " \o SchemaText(schema) \o ", actual " \o formatActual(actual))

DomainError(message) == ErrorOf("DomainError", Str("DomainError"), message)

\* value is of the schema's decoded type
IsType(schema, value) ==
    CASE schema = "AddReq" ->
            value.k = "obj" /\ Get(value, "a").k = "num" /\ Get(value, "b").k = "num"
      [] schema = "AddRes" -> value.k = "obj" /\ Get(value, "sum").k = "num"
      [] schema = "Empty" -> value.k \notin {"undef", "null"}
      [] schema = "OkRes" -> value.k = "obj" /\ Get(value, "ok").k = "bool"
      [] schema = "DomainError" ->
            value.k = "error" /\ value.name = "DomainError"
      [] schema = "Progress" -> value.k = "obj" /\ Get(value, "value").k = "num"
      [] schema = "Message" -> value.k = "obj" /\ Get(value, "message").k = "str"
      [] schema = "Null" -> value.k = "null"
      [] schema = "Never" -> FALSE

\* value is of the schema's encoded (wire) type
IsEncoded(schema, value) ==
    IF schema = "DomainError"
    THEN /\ value.k = "obj"
         /\ Get(value, "_tag") = Str("DomainError")
         /\ Get(value, "message").k = "str"
    ELSE IsType(schema, value)

\* S.encodeSync(schema)(value): the encoded value, or the ParseError thrown
encodeSync(schema, value) ==
    IF ~IsType(schema, value)
    THEN [ok |-> FALSE, value |-> ParseError(schema, value)]
    ELSE IF schema = "DomainError"
         THEN [ok |-> TRUE,
               value |-> Obj([_tag |-> Str("DomainError"),
                             message |-> Str(value.message)])]
         ELSE IF schema = "Message"
         THEN [ok |-> TRUE, value |-> Obj([message |-> Get(value, "message")])]
         ELSE [ok |-> TRUE, value |-> value]

\* S.decodeUnknownSync(schema)(raw): the decoded value, or the ParseError thrown
decodeUnknownSync(schema, raw) ==
    IF ~IsEncoded(schema, raw)
    THEN [ok |-> FALSE, value |-> ParseError(schema, raw)]
    ELSE IF schema = "DomainError"
         THEN [ok |-> TRUE, value |-> DomainError(Get(raw, "message").s)]
         ELSE IF schema = "Message"
         THEN [ok |-> TRUE, value |-> Obj([message |-> Get(raw, "message")])]
         ELSE [ok |-> TRUE, value |-> raw]

MethodNames == <<"Add", "Fail">>

MethodSet == {MethodNames[i] : i \in DOMAIN MethodNames}

\* The methods whose listeners the transport calls: those of the contract
\* above and Relay, rpc("Relay", S.Struct({}), S.Struct({ok: S.Boolean}),
\* S.Struct({message: S.String})), a method whose error schema is a plain
\* struct and not a tagged error class.
ListenerMethods == MethodSet \cup {"Relay"}

\* The methods a client's callers are generated for: those of the contract
\* above and AcceptNull, rpc("AcceptNull", S.Null, S.Struct({ok: S.Boolean})),
\* a method whose request schema does not accept the empty object that a
\* caller passes when it is called without an argument.
ClientMethods == MethodSet \cup {"AcceptNull"}

MethodReq(m) ==
    IF m = "Add" THEN "AddReq" ELSE IF m = "AcceptNull" THEN "Null" ELSE "Empty"

MethodRes(m) == IF m = "Add" THEN "AddRes" ELSE "OkRes"

MethodErr(m) ==
    IF m \in {"Add", "AcceptNull"} THEN "Never"
    ELSE IF m = "Relay" THEN "Message" ELSE "DomainError"

isNoErrorSchema(schema) == schema = "Never"

\* ------------------------------------------------------------------------
\* Implementations and the Effect runtime
\* ------------------------------------------------------------------------
\* What an implementation does with a decoded input.
Behaviours ==
    {"succeed", "succeedBad", "failTyped", "failBad", "failBare", "die", "dieBare",
     "interrupt", "syncThrow", "syncThrowBare", "failEmptyTag"}

\* The behaviours drawn for the implementation of method m: for Add every
\* one but the failure that only a struct error schema encodes; for Fail and
\* Relay the ones that depend on their error schema (the others take the
\* same path in handleRpcRequest whatever the method).
BehavioursOf(m) ==
    IF m = "Add" THEN Behaviours \ {"failEmptyTag"}
    ELSE IF m = "Relay" THEN {"succeed", "failEmptyTag"}
    ELSE {"succeed", "failTyped", "failBad"}

ExitSuccess(value) == [tag |-> "Success", value |-> value, cause |-> "none"]

ExitFailure(cause, value) == [tag |-> "Failure", value |-> value, cause |-> cause]

\* impl(input): a synchronous throw, or the effect it returns, named by the
\* Exit that Runtime.runPromiseExit resolves with when the effect is awaited.
implementation(m, beh, input) ==
    CASE beh = "syncThrow" ->
            [threw |-> TRUE, value |-> ErrorOf("Error", Undef, "sync boom")]
      [] beh = "syncThrowBare" -> [threw |-> TRUE, value |-> Bare]
      [] beh = "succeed" ->
            [threw |-> FALSE,
             exit |-> ExitSuccess(
                 IF m = "Add"
                 THEN Obj([sum |-> Num(Get(input, "a").n + Get(input, "b").n)])
                 ELSE Obj([ok |-> Bool(TRUE)]))]
      [] beh = "succeedBad" ->
            [threw |-> FALSE, exit |-> ExitSuccess(Obj([sum |-> Str("bad")]))]
      [] beh = "failTyped" ->
            [threw |-> FALSE, exit |-> ExitFailure("Fail", DomainError("denied"))]
      [] beh = "failBad" ->
            [threw |-> FALSE,
             exit |-> ExitFailure("Fail", Obj([_tag |-> Str("DomainError")]))]
      [] beh = "failBare" -> [threw |-> FALSE, exit |-> ExitFailure("Fail", Bare)]
      [] beh = "failEmptyTag" ->
            [threw |-> FALSE,
             exit |-> ExitFailure("Fail", Obj([_tag |-> Str(""),
                                               message |-> Str("denied")]))]
      [] beh = "die" ->
            [threw |-> FALSE, exit |-> ExitFailure("Die", Str("boom"))]
      [] beh = "dieBare" -> [threw |-> FALSE, exit |-> ExitFailure("Die", Bare)]
      [] beh = "interrupt" ->
            [threw |-> FALSE, exit |-> ExitFailure("Interrupt", InterruptCause)]

\* ------------------------------------------------------------------------
\* main.ts: handleRpcRequest
\* ------------------------------------------------------------------------
Returned(envelope, seen) == [kind |-> "returned", value |-> envelope, seen |-> seen]

Rejected(error, seen) == [kind |-> "rejected", value |-> error, seen |-> seen]

DiagnosticsThrew == ErrorOf("Error", Undef, "diagnostics crashed")

\* return toDefectEnvelope(...): the listener returns the envelope, or the
\* exception of toDefectEnvelope leaves the listener.
ReturnDefect(defect, seen) ==
    IF defect.ok THEN Returned(defect.value, seen) ELSE Rejected(defect.value, seen)

\* A diagnostics call followed by return toDefectEnvelope(...): the exception
\* of the callback, if safelyCall lets it out, leaves the listener first.
AfterDiagnostic(sc, defect) ==
    IF sc.threw THEN Rejected(DiagnosticsThrew, sc.seen)
    ELSE ReturnDefect(defect, sc.seen)

\* Lines 107-130: decode the request and call the implementation.  The
\* result is a finished response (done) or an effect to await.
handleRpcRequestSync(m, rawPayload, beh, diag) ==
    LET decoded == decodeUnknownSync(MethodReq(m), rawPayload)
    IN IF ~decoded.ok
       THEN [done |-> TRUE,
             input |-> Undef,
             out |-> AfterDiagnostic(
                 safelyCall(diag, [hook |-> "onDecodeFailure",
                                   scope |-> "rpc-request",
                                   name |-> m,
                                   cause |-> decoded.value,
                                   payload |-> rawPayload]),
                 toDefectEnvelope(decoded.value,
                                  "RPC " \o m \o " request decode failed"))]
       ELSE LET effect == implementation(m, beh, decoded.value)
            IN IF effect.threw
               THEN [done |-> TRUE,
                     input |-> decoded.value,
                     out |-> ReturnDefect(
                         toDefectEnvelope(effect.value,
                                          "RPC " \o m \o " implementation threw"),
                         <<>>)]
               ELSE [done |-> FALSE,
                     input |-> decoded.value,
                     out |-> Returned(Undef, <<>>)]

reportProtocolError(diag, method, response, cause) ==
    safelyCall(diag, [hook |-> "onProtocolError",
                      method |-> method,
                      cause |-> cause,
                      response |-> response])

\* Lines 132-174: classify the Exit of the awaited effect.
handleRpcRequestExit(m, exit, diag) ==
    IF exit.tag = "Success"
    THEN LET encoded == encodeSync(MethodRes(m), exit.value)
         IN IF encoded.ok
            THEN Returned(Obj([type |-> Str("success"), data |-> encoded.value]), <<>>)
            ELSE AfterDiagnostic(
                     reportProtocolError(diag, m, exit.value, encoded.value),
                     toDefectEnvelope(encoded.value,
                                      "RPC " \o m \o " success encoding failed"))
    ELSE IF exit.cause = "Fail"
    THEN IF isNoErrorSchema(MethodErr(m))
         THEN ReturnDefect(
                  toDefectEnvelope(
                      exit.value,
                      "RPC " \o m \o " returned a typed failure, but method declares NoError"),
                  <<>>)
         ELSE LET encoded == encodeSync(MethodErr(m), exit.value)
              IN IF encoded.ok
                 THEN Returned(
                          Obj([type |-> Str("failure"),
                               error |-> Obj([tag |-> Str(extractErrorTag(exit.value)),
                                              data |-> encoded.value])]),
                          <<>>)
                 ELSE AfterDiagnostic(
                          reportProtocolError(diag, m, exit.value, encoded.value),
                          toDefectEnvelope(encoded.value,
                                           "RPC " \o m \o " failure encoding failed"))
    ELSE IF exit.cause = "Die"
    THEN ReturnDefect(toDefectEnvelope(exit.value, "RPC " \o m \o " defect"), <<>>)
    ELSE ReturnDefect(toDefectEnvelope(exit.value, "RPC " \o m \o " interrupted"), <<>>)

\* ------------------------------------------------------------------------
\* Inbound calls on the endpoint's listeners
\* ------------------------------------------------------------------------
CallIds == 1..MaxCalls

\* The raw payloads the transport delivers
RawPayloads(m) ==
    IF m = "Add"
    THEN {Obj([a |-> Num(10), b |-> Num(1)]),
          Obj([a |-> Num(2), b |-> Num(3)]),
          Obj([a |-> Num(1)])}
    ELSE {Obj(<<>>), Null}

IdleCall ==
    [pc |-> "idle", method |-> "", raw |-> Undef, beh |-> "", input |-> Undef,
     effect |-> ExitSuccess(Undef), out |-> [kind |-> "none", value |-> Undef]]

InitListener(modes) ==
    /\ calls = [i \in CallIds |-> IdleCall]
    /\ epDiag \in modes
    /\ epDiagLog = <<>>
    /\ completionOrder = <<>>

\* The effect a suspended listener is awaiting (the local `effect`, line 132)
awaitedEffectShared(i) == calls[1].effect

awaitedEffect(i) == calls[i].effect

\* The transport calls the listener of method m with a raw payload: the
\* listener runs up to its first suspension point or to its return.  The
\* behaviour of the implementation is drawn only for a payload that reaches
\* it (one the request schema decodes); otherwise impl is never called.
ListenerInvoke(i, m, raw, beh) ==
    /\ calls[i].pc = "idle"
    /\ i > 1 => calls[i - 1].pc # "idle"
    /\ IF IsEncoded(MethodReq(m), raw) THEN beh \in BehavioursOf(m)
                                         ELSE beh = "succeed"
    /\ LET r == handleRpcRequestSync(m, raw, beh, epDiag)
       IN /\ calls' = [calls EXCEPT ![i] =
                 [pc |-> IF r.done THEN "done" ELSE "awaiting",
                  method |-> m,
                  raw |-> raw,
                  beh |-> beh,
                  input |-> r.input,
                  effect |-> IF r.done THEN ExitSuccess(Undef)
                             ELSE implementation(m, beh, r.input).exit,
                  out |-> IF r.done
                          THEN [kind |-> r.out.kind, value |-> r.out.value]
                          ELSE [kind |-> "none", value |-> Undef]]]
          /\ epDiagLog' = epDiagLog \o r.out.seen
          /\ completionOrder' = IF r.done THEN Append(completionOrder, i)
                                ELSE completionOrder
    /\ UNCHANGED epDiag
    /\ UNCHANGED <<endpointVars, publisherVars, clientVars, constructionVars, kitVars,
                 subscriberVars>>

\* The awaited effect of call i completes: the listener resumes and returns.
ListenerResume(i) ==
    /\ calls[i].pc = "awaiting"
    /\ LET out == handleRpcRequestExit(calls[i].method, awaitedEffect(i), epDiag)
       IN /\ calls' = [calls EXCEPT ![i].pc = "done",
                                    ![i].out = [kind |-> out.kind, value |-> out.value]]
          /\ epDiagLog' = epDiagLog \o out.seen
    /\ completionOrder' = Append(completionOrder, i)
    /\ UNCHANGED epDiag
    /\ UNCHANGED <<endpointVars, publisherVars, clientVars, constructionVars, kitVars,
                 subscriberVars>>

NextListener ==
    \/ \E i \in CallIds, m \in ListenerMethods, beh \in Behaviours :
          \E raw \in RawPayloads(m) : ListenerInvoke(i, m, raw, beh)
    \/ \E i \in CallIds : ListenerResume(i)

\* ------------------------------------------------------------------------
\* main.ts: createRpcEndpoint and its start / stop / dispose / isRunning
\* ------------------------------------------------------------------------
rpcPrefix == "rpc/"

\* The method names of the contracts that endpoints are created for
Contracts == {<<"Add", "Fail">>, <<"Add", "toString">>}

\* The function-valued properties every plain object inherits from
\* Object.prototype
ObjectPrototypeFunctions ==
    {"constructor", "hasOwnProperty", "isPrototypeOf", "propertyIsEnumerable",
     "toLocaleString", "toString", "valueOf", "__defineGetter__",
     "__defineSetter__", "__lookupGetter__", "__lookupSetter__"}

\* An own enumerable property of the implementations object, by the typeof
\* of its value
Property(name, type) == [type |-> type, name |-> name]

\* The implementations objects, as their own properties in insertion order
ImplementationMaps(methods) ==
    {<<>>,
     <<Property(methods[1], "function")>>,
     <<Property(methods[1], "function"), Property(methods[2], "function")>>,
     <<Property(methods[1], "function"), Property(methods[2], "undefined")>>,
     <<Property(methods[1], "function"), Property(methods[2], "function"),
       Property("Extra", "function")>>,
     <<Property("Extra", "function"), Property(methods[1], "function")>>}

\* typeof implementationsByName[name]: the own property, else the property
\* inherited from Object.prototype
typeofImplementation(implementations, name) ==
    IF \E i \in DOMAIN implementations : implementations[i].name = name
    THEN implementations[CHOOSE i \in DOMAIN implementations :
                             implementations[i].name = name].type
    ELSE IF name \in ObjectPrototypeFunctions THEN "function"
    ELSE "undefined"

isImplementation(type) == type = "function"

\* createRpcEndpoint(contract, ipc, implementations, options) up to its
\* return: the Error thrown, or the channels of the listeners it prepared.
\* It makes no call on ipc.
createRpcEndpoint(methods, implementations) ==
    LET methodNames == {methods[i] : i \in DOMAIN methods}
        unknown == {i \in DOMAIN implementations :
                       implementations[i].name \notin methodNames}
        missing == {i \in DOMAIN methods :
                       ~isImplementation(
                           typeofImplementation(implementations, methods[i]))}
        First(S) == CHOOSE x \in S : \A y \in S : x <= y
    IN IF unknown # {}
       THEN [ok |-> FALSE,
             value |-> ErrorOf("Error", Undef,
                               "Implementation provided for unknown RPC method: "
                                   \o implementations[First(unknown)].name),
             handlers |-> <<>>]
       ELSE IF missing # {}
       THEN [ok |-> FALSE,
             value |-> ErrorOf("Error", Undef,
                               "Missing implementation for RPC method: "
                                   \o methods[First(missing)]),
             handlers |-> <<>>]
       ELSE [ok |-> TRUE, value |-> Undef,
             handlers |-> [i \in DOMAIN methods |-> rpcPrefix \o methods[i]]]

\* The keys of the `listeners` map, in insertion order (line 99-101)
Channels == [i \in DOMAIN MethodNames |-> rpcPrefix \o MethodNames[i]]

ChannelSet == {Channels[i] : i \in DOMAIN Channels}

DisposedError == "RPC endpoint has already been disposed."

HandleError(channel) == "handle failed for " \o channel

RemoveError(channel) == "remove failed for " \o channel

\* What a lifecycle call has done so far: its name, its result, the
\* registrar calls made during it, and whether the registrar has called back
\* during one of them
NoOp(op) ==
    [op |-> op, error |-> "", result |-> "ok", handled |-> <<>>, removed |-> <<>>,
     reentered |-> FALSE]

\* What a call on the handle of createIpcKit(...).main() has done so far:
\* its name, its result and the component calls it made
NoCall(op) == [op |-> op, error |-> "", result |-> "ok", attempted |-> <<>>]

\* The endpoint and the publisher's lifecycle state at the moment a call
\* begins.  `handle` tells whose functions the registrar calls when it calls
\* back: those of the handle of createIpcKit(...).main(), or those of the
\* endpoint.  depth is the number of registrar calls on the call stack.
Entering(op, handle) ==
    [last |-> NoOp(op), dropped |-> dropped, running |-> running,
     disposed |-> disposed, handlers |-> handlers, queue |-> queue,
     drainScheduled |-> drainScheduled, evicted |-> evicted,
     stopped |-> FALSE, pubRunning |-> pubRunning, pubDisposed |-> pubDisposed,
     microtasks |-> microtasks, pubLast |-> pubLast, reentries |-> reentries,
     depth |-> 0, disposeCalled |-> disposeCalled,
     registrarThrew |-> registrarThrew, handleCalls |-> handleCalls,
     removeCalls |-> removeCalls, kit |-> NoCall(op), handle |-> handle,
     published |-> published]

\* An exception is on its way out of the call
Throws(ep) == ep.last.result = "threw"

\* The call throws the error
Threw(ep, error) == [ep EXCEPT !.last.result = "threw", !.last.error = error]

\* The registrar catches the exception of the call it made
Caught(ep) == [ep EXCEPT !.last.result = "ok", !.last.error = ""]

\* An exception leaves a call of the registrar
Escapes(ep) == [ep EXCEPT !.registrarThrew = TRUE]

\* The log of an endpoint call that is not made from inside the registrar
Fresh(ep, op) == IF ep.depth = 0 THEN [ep EXCEPT !.last = NoOp(op)] ELSE ep

RECURSIVE start(_), stop(_), dispose(_)
RECURSIVE handleFrom(_, _), removeFrom(_, _), nested(_), reacts(_, _)
RECURSIVE handleStart(_), handleStop(_), handleDispose(_), publisherCalls(_)

\* The registrar (options.ipcMain) calls back from inside handle or
\* removeHandler, and how the call ends: one call of start(), stop() or
\* dispose() of the endpoint, and, when the registrar holds the handle of
\* createIpcKit(...).main(), of start(), stop() or dispose() of the handle,
\* of a function of handle.publisher, or of handle.publish
nested(ep) ==
    LET inside == [ep EXCEPT !.depth = @ + 1, !.reentries = @ + 1,
                             !.last.reentered = TRUE]
        ends == start(inside) \cup stop(inside) \cup dispose(inside)
                    \cup IF ep.handle
                         THEN handleStart(inside) \cup handleStop(inside)
                                  \cup handleDispose(inside)
                                  \cup publisherCalls(inside)
                         ELSE {}
    IN {[r EXCEPT !.depth = ep.depth] : r \in ends}

\* What the registrar does once it holds (or has let go of) the handler: it
\* returns, it throws `error`, or it first calls back, and then an exception
\* of that call leaves the registrar unless the registrar catches it.  The
\* registrar makes at most MaxReentries such calls in all (MaxKitReentries
\* when it calls the handle).  The result is every state in which the
\* registrar's call can end.
reacts(ep, error) ==
    {ep, Escapes(Threw(ep, error))}
        \cup IF ep.reentries < (IF ep.handle THEN MaxKitReentries
                                               ELSE MaxReentries)
             THEN UNION {IF Throws(n)
                         THEN {Escapes(n)} \cup reacts(Caught(n), error)
                         ELSE reacts(n, error) : n \in nested(ep)}
             ELSE {}

\* for (const [channel, listener] of listeners) ipc.handle(channel, listener),
\* from the i-th channel on: handle throws at once, registering nothing, or
\* registers the listener and reacts; an exception ends the loop
handleFrom(i, ep) ==
    IF i > Len(Channels)
    THEN {ep}
    ELSE LET channel == Channels[i]
             called == [ep EXCEPT !.last.handled = Append(@, channel),
                                  !.handleCalls = Append(@, channel)]
             registered == [called EXCEPT !.handlers = @ \cup {channel}]
         IN {Escapes(Threw(called, HandleError(channel)))}
                \cup UNION {IF Throws(r) THEN {r} ELSE handleFrom(i + 1, r) :
                               r \in reacts(registered, HandleError(channel))}

\* for (const channel of listeners.keys()) ipc.removeHandler(channel), from
\* the i-th channel on: removeHandler throws at once, removing nothing, or
\* removes the handler and reacts; an exception ends the loop
removeFrom(i, ep) ==
    IF i > Len(Channels)
    THEN {ep}
    ELSE LET channel == Channels[i]
             called == [ep EXCEPT !.last.removed = Append(@, channel),
                                  !.removeCalls = Append(@, channel)]
             unregistered == [called EXCEPT !.handlers = @ \ {channel}]
         IN {Escapes(Threw(called, RemoveError(channel)))}
                \cup UNION {IF Throws(r) THEN {r} ELSE removeFrom(i + 1, r) :
                               r \in reacts(unregistered, RemoveError(channel))}

\* start() on the endpoint ep, every way it can end: running is set after
\* the loop over the listeners has returned
start(ep) ==
    IF ep.disposed
    THEN {Threw(ep, DisposedError)}
    ELSE IF ep.running
    THEN {ep}
    ELSE {IF Throws(r) THEN r ELSE [r EXCEPT !.running = TRUE] :
             r \in handleFrom(1, ep)}

\* stop() on the endpoint ep, every way it can end: running is cleared
\* after the loop over the channels has returned
stop(ep) ==
    IF ~ep.running
    THEN {ep}
    ELSE {IF Throws(r) THEN r ELSE [r EXCEPT !.running = FALSE] :
             r \in removeFrom(1, ep)}

\* dispose(), every way it can end: stop(), then disposed = true unless
\* stop() threw
dispose(ep) ==
    IF ep.disposed
    THEN {[ep EXCEPT !.disposeCalled = TRUE]}
    ELSE {IF Throws(r) THEN r ELSE [r EXCEPT !.disposed = TRUE] :
             r \in stop([ep EXCEPT !.disposeCalled = TRUE])}

isRunning == running

InitEndpoint ==
    /\ running = FALSE
    /\ disposed = FALSE
    /\ handlers = {}
    /\ lastOp = NoOp("none")
    /\ disposeCalled = FALSE
    /\ handleCalls = <<>>
    /\ removeCalls = <<>>
    /\ lifecycleOps = 0
    /\ registrarThrew = FALSE
    /\ reentries = 0

\* What a call that ended in r leaves in the endpoint and in the log of the
\* registrar's calls
Left(r) ==
    /\ lifecycleOps < MaxLifecycleOps
    /\ lifecycleOps' = lifecycleOps + 1
    /\ running' = r.running
    /\ disposed' = r.disposed
    /\ handlers' = r.handlers
    /\ lastOp' = r.last
    /\ disposeCalled' = r.disposeCalled
    /\ handleCalls' = r.handleCalls
    /\ removeCalls' = r.removeCalls
    /\ registrarThrew' = r.registrarThrew
    /\ reentries' = r.reentries

EndpointStart ==
    /\ \E r \in start(Entering("start", FALSE)) : Left(r)
    /\ UNCHANGED <<listenerVars, publisherVars, clientVars, constructionVars, kitVars,
                 subscriberVars>>

EndpointStop ==
    /\ \E r \in stop(Entering("stop", FALSE)) : Left(r)
    /\ UNCHANGED <<listenerVars, publisherVars, clientVars, constructionVars, kitVars,
                 subscriberVars>>

EndpointDispose ==
    /\ \E r \in dispose(Entering("dispose", FALSE)) : Left(r)
    /\ UNCHANGED <<listenerVars, publisherVars, clientVars, constructionVars, kitVars,
                 subscriberVars>>

NextEndpoint ==
    \/ EndpointStart
    \/ EndpointStop
    \/ EndpointDispose

\* ------------------------------------------------------------------------
\* main.ts: createEventPublisher
\* ------------------------------------------------------------------------
eventPrefix == "event/"

\* The numbers options.maxQueueSize can hold besides the integers Num(n):
\* Half(h) is the number h/2, and there are NaN and the two infinities.
Half(h) == [k |-> "half", n |-> h]

NaN == [k |-> "nan"]

PositiveInfinity == [k |-> "inf", s |-> "+"]

NegativeInfinity == [k |-> "inf", s |-> "-"]

\* Number.isFinite(value)
NumberIsFinite(value) == value.k \in {"num", "half"}

\* value < 1, for a finite number
LessThanOne(value) == IF value.k = "num" THEN value.n < 1 ELSE value.n < 2

\* Math.floor(value), for a finite number
MathFloor(value) == IF value.k = "num" THEN value ELSE Num(value.n \div 2)

QueueSizeError ==
    ErrorOf("Error", Undef,
            "Event publisher maxQueueSize must be a positive finite number.")

\* clampQueueSize without Math.floor
clampQueueSizeNoFloor(size) ==
    IF size = Undef
    THEN [ok |-> TRUE, value |-> Num(1000)]
    ELSE IF ~NumberIsFinite(size) \/ LessThanOne(size)
    THEN [ok |-> FALSE, value |-> QueueSizeError]
    ELSE [ok |-> TRUE, value |-> size]

\* clampQueueSize(maxQueueSize): the capacity, or the Error thrown
clampQueueSize(size) ==
    IF size = Undef
    THEN [ok |-> TRUE, value |-> Num(1000)]
    ELSE IF ~NumberIsFinite(size) \/ LessThanOne(size)
    THEN [ok |-> FALSE, value |-> QueueSizeError]
    ELSE [ok |-> TRUE, value |-> MathFloor(size)]

\* The values of options.maxQueueSize that constructors are called with
QueueSizeOptions ==
    {Undef, Num(-2), Num(0), Num(1), Num(QueueCap), Num(1000),
     Half(-1), Half(1), Half(3), Half(5),
     NaN, PositiveInfinity, NegativeInfinity}

\* The publishers of the model are created with maxQueueSize: QueueCap
maxQueueSize == clampQueueSize(Num(QueueCap)).value.n

\* The n-th published item: a Progress event whose payload the event's
\* schema {value: Number} can encode (ok) or cannot.
QueueItem(n, ok) ==
    [event |-> "Progress",
     payload |-> IF ok THEN Obj([value |-> Num(n)])
                 ELSE Obj([value |-> Str(ToString(n))])]

\* What options.getWindow(), window.isDestroyed() and webContents.send do for
\* one dispatch: getWindow() returns null, a destroyed window or a window
\* whose send returns or throws, or getWindow() or isDestroyed() throws
WindowStates ==
    {"null", "destroyed", "ok", "send_throws", "getWindow_throws",
     "isDestroyed_throws"}

\* The window states in which an exception leaves the two calls that
\* dispatch makes outside its try blocks
WindowThrows == {"getWindow_throws", "isDestroyed_throws"}

\* scheduleDrain() without its draining check
scheduleDrainWhileDraining(run, disp, drn, sched) ==
    IF ~run \/ disp \/ sched
    THEN [queued |-> 0, drainScheduled |-> sched]
    ELSE [queued |-> 1, drainScheduled |-> TRUE]

\* scheduleDrain() without its drainScheduled check
scheduleDrainAgain(run, disp, drn, sched) ==
    IF ~run \/ disp \/ drn
    THEN [queued |-> 0, drainScheduled |-> sched]
    ELSE [queued |-> 1, drainScheduled |-> TRUE]

\* scheduleDrain() under the given flags: the new drainScheduled and the
\* number of callbacks handed to queueMicrotask
scheduleDrain(run, disp, drn, sched) ==
    IF ~run \/ disp \/ drn \/ sched
    THEN [queued |-> 0, drainScheduled |-> sched]
    ELSE [queued |-> 1, drainScheduled |-> TRUE]

DroppedContext(item, reason, queued, droppedNow) ==
    [hook |-> "onDroppedEvent", event |-> item.event, payload |-> item.payload,
     queued |-> queued, dropped |-> droppedNow, reason |-> reason]

DecodeFailureContext(item, cause) ==
    [hook |-> "onDecodeFailure", scope |-> "event-payload", name |-> item.event,
     cause |-> cause, payload |-> item.payload]

\* dispatch(item) when `queued` items remain queued, the counter stands at
\* droppedNow and the diagnostics callbacks behave as diag and make no call
\* on the publisher: the new counter, whether send was called and returned,
\* the diagnostics contexts, and whether an exception leaves dispatch.
dispatch(item, win, queued, droppedNow, diag) ==
    LET encoded == encodeSync(item.event, item.payload)
    IN IF ~encoded.ok
       THEN LET sc1 == safelyCall(diag, DecodeFailureContext(item, encoded.value))
                sc2 == safelyCall(diag,
                                  DroppedContext(item, "encoding_failed",
                                                 queued, droppedNow + 1))
            IN IF sc1.threw
               THEN [threw |-> TRUE, seen |-> sc1.seen,
                     dropped |-> droppedNow + 1, sendCalled |-> FALSE, sendOk |-> FALSE]
               ELSE [threw |-> sc2.threw, seen |-> sc1.seen \o sc2.seen,
                     dropped |-> droppedNow + 1, sendCalled |-> FALSE,
                     sendOk |-> FALSE]
       ELSE IF win \in WindowThrows
       THEN [threw |-> TRUE, seen |-> <<>>, dropped |-> droppedNow,
             sendCalled |-> FALSE, sendOk |-> FALSE]
       ELSE IF win \in {"null", "destroyed"}
       THEN [threw |-> FALSE, seen |-> <<>>, dropped |-> droppedNow,
             sendCalled |-> FALSE, sendOk |-> FALSE]
       ELSE IF win = "send_throws"
       THEN LET sc == safelyCall(diag, [hook |-> "onDispatchFailure",
                                        event |-> item.event,
                                        cause |-> ErrorOf("Error", Undef,
                                                          "transient send failure"),
                                        payload |-> item.payload])
            IN [threw |-> sc.threw, seen |-> sc.seen, dropped |-> droppedNow,
                sendCalled |-> TRUE, sendOk |-> FALSE]
       ELSE [threw |-> FALSE, seen |-> <<>>, dropped |-> droppedNow,
             sendCalled |-> TRUE, sendOk |-> TRUE]

\* Which of its five ends a call of dispatch(item) with result d took
dispatchOutcome(item, d) ==
    IF ~encodeSync(item.event, item.payload).ok THEN "encoding_failed"
    ELSE IF ~d.sendCalled /\ d.threw THEN "window_threw"
    ELSE IF ~d.sendCalled THEN "window_unavailable"
    ELSE IF ~d.sendOk THEN "dispatch_failed"
    ELSE "sent"

\* enqueue(item) up to the return of onDroppedEvent (lines 346-359): a full
\* queue loses its oldest item, which is counted and reported
enqueueEvict(diag) ==
    LET full == Len(queue) >= maxQueueSize
        q1 == IF full THEN Tail(queue) ELSE queue
        d1 == IF full THEN dropped + 1 ELSE dropped
        sc == IF full
              THEN safelyCall(diag,
                              DroppedContext(Head(queue), "queue_full", Len(q1), d1))
              ELSE [threw |-> FALSE, seen |-> <<>>]
    IN [threw |-> sc.threw, seen |-> sc.seen, dropped |-> d1, queue |-> q1,
        evicted |-> IF full THEN {Head(queue).payload} ELSE {}]

\* The last two lines of enqueue(item) on the queue q (lines 361-362):
\* queue.push(item); scheduleDrain()
enqueuePush(item, q) ==
    LET sd == scheduleDrain(pubRunning, pubDisposed, draining, drainScheduled)
    IN [queued |-> sd.queued, queue |-> Append(q, item),
        drainScheduled |-> sd.drainScheduled]

\* enqueue(item) with an onDroppedEvent that makes no call on the publisher:
\* the queue, the counter, the evicted items, the scheduling flags, the
\* diagnostics contexts, and whether an exception leaves enqueue.
enqueue(item, diag) ==
    LET e == enqueueEvict(diag)
        p == enqueuePush(item, e.queue)
    IN IF e.threw
       THEN [threw |-> TRUE, seen |-> e.seen,
             queued |-> 0,
             dropped |-> e.dropped, queue |-> e.queue,
             drainScheduled |-> drainScheduled,
             evicted |-> e.evicted]
       ELSE [threw |-> FALSE, seen |-> e.seen,
             queued |-> p.queued,
             dropped |-> e.dropped, queue |-> p.queue,
             drainScheduled |-> p.drainScheduled,
             evicted |-> e.evicted]

stats == [queued |-> Len(queue), dropped |-> dropped]

\* No item: the value of pass.next before a pass has taken one
NoItem == [event |-> "", payload |-> Undef]

\* The bookkeeping of a drain pass: where the pass stands (pc), the item it
\* took last (next), whether stop() or dispose() was called during the pass
\* (stopped), and what C7 needs to know of it
IdlePass ==
    [pc |-> "loop", sendThrew |-> FALSE, behind |-> {}, dispatched |-> {},
     endRunning |-> FALSE, outcome |-> "none", next |-> NoItem, stopped |-> FALSE]

InitPublisher(modes) ==
    /\ queue = <<>>
    /\ dropped = 0
    /\ pubRunning = FALSE
    /\ pubDisposed = FALSE
    /\ draining = FALSE
    /\ drainScheduled = FALSE
    /\ microtasks = 0
    /\ pubDiag \in modes
    /\ pubSeen = <<>>
    /\ pubLast = [threw |-> FALSE, op |-> "none"]
    /\ published = <<>>
    /\ sent = <<>>
    /\ evicted = {}
    /\ drained = FALSE
    /\ pass = IdlePass
    /\ pending = <<>>

\* The number of publish() calls the model makes: MaxPublish, and
\* MaxNestedPublish more from inside a call of onDroppedEvent
PublishBound ==
    IF pending = <<>> THEN MaxPublish ELSE MaxPublish + MaxNestedPublish

\* The pass in progress, told that stop() or dispose() was called
PassStopped == IF draining THEN [pass EXCEPT !.stopped = TRUE] ELSE pass

\* publish(event, payload) on a disposed publisher returns at once
publishIgnored ==
    /\ pubSeen' = <<>>
    /\ pubLast' = [threw |-> FALSE, op |-> "publish"]
    /\ UNCHANGED <<queue, dropped, drainScheduled, microtasks, evicted, pending>>

\* publish(event, payload) whose enqueue runs to its end in one step
publishEnqueues(item) ==
    LET r == enqueue(item, pubDiag)
    IN /\ queue' = r.queue
       /\ dropped' = r.dropped
       /\ evicted' = evicted \cup r.evicted
       /\ drainScheduled' = r.drainScheduled
       /\ microtasks' = microtasks + r.queued
       /\ pubSeen' = r.seen
       /\ pubLast' = [threw |-> r.threw, op |-> "publish"]
       /\ UNCHANGED pending

\* publish(event, payload), run.  When the queue is full and onDroppedEvent is
\* installed, the callback either makes no call on the publisher (enqueue
\* goes on at once) or `nests`: the step ends inside the callback, the
\* publisher's functions can be called, and PublishReturns is the rest of
\* enqueue.
Publish(ok, nests) ==
    /\ Len(published) < PublishBound
    /\ LET item == QueueItem(Len(published) + 1, ok)
           e == enqueueEvict(pubDiag)
       IN /\ published' = Append(published, item.payload)
          /\ IF pubDisposed
             THEN publishIgnored
             ELSE IF nests /\ e.seen # <<>> /\ ~e.threw
             THEN /\ queue' = e.queue
                  /\ dropped' = e.dropped
                  /\ evicted' = evicted \cup e.evicted
                  /\ pending' = Append(pending, item)
                  /\ pubSeen' = e.seen
                  /\ pubLast' = [threw |-> FALSE, op |-> "onDroppedEvent"]
                  /\ UNCHANGED <<drainScheduled, microtasks>>
             ELSE publishEnqueues(item)
    /\ UNCHANGED <<pubRunning, pubDisposed, draining, pubDiag, sent, drained, pass>>
    /\ UNCHANGED <<listenerVars, endpointVars, clientVars, constructionVars, kitVars,
                 subscriberVars>>

\* The onDroppedEvent called by the innermost enqueue in progress ends
\* (safelyCall catches what it throws), and that enqueue goes on:
\* queue.push(item); scheduleDrain(); publish() returns
PublishReturns ==
    /\ pending # <<>>
    /\ LET item == pending[Len(pending)]
           p == enqueuePush(item, queue)
       IN /\ queue' = p.queue
          /\ drainScheduled' = p.drainScheduled
          /\ microtasks' = microtasks + p.queued
          /\ pending' = SubSeq(pending, 1, Len(pending) - 1)
    /\ pubSeen' = <<>>
    /\ pubLast' = [threw |-> FALSE, op |-> "publish"]
    /\ UNCHANGED <<dropped, pubRunning, pubDisposed, draining, pubDiag, published,
                   sent, evicted, drained, pass>>
    /\ UNCHANGED <<listenerVars, endpointVars, clientVars, constructionVars, kitVars,
                 subscriberVars>>

\* start() without its call of scheduleDrain()
PubStartForgetsDrain ==
    /\ IF pubDisposed
       THEN /\ pubLast' = [threw |-> TRUE, op |-> "start"]
            /\ UNCHANGED pubRunning
       ELSE /\ pubLast' = [threw |-> FALSE, op |-> "start"]
            /\ pubRunning' = TRUE
    /\ pubSeen' = <<>>
    /\ UNCHANGED <<queue, dropped, pubDisposed, draining, drainScheduled,
                   microtasks, pubDiag, published, sent, evicted, drained, pass,
                   pending>>
    /\ UNCHANGED <<listenerVars, endpointVars, clientVars, constructionVars, kitVars,
                 subscriberVars>>

\* start() without its disposed check
PubStartRevives ==
    /\ IF pubRunning
       THEN UNCHANGED <<pubRunning, drainScheduled, microtasks>>
       ELSE LET sd == scheduleDrain(TRUE, FALSE, draining, drainScheduled)
            IN /\ pubRunning' = TRUE
               /\ drainScheduled' = sd.drainScheduled
               /\ microtasks' = microtasks + sd.queued
    /\ pubLast' = [threw |-> FALSE, op |-> "start"]
    /\ pubSeen' = <<>>
    /\ UNCHANGED <<queue, dropped, pubDisposed, draining, pubDiag, published,
                   sent, evicted, drained, pass, pending>>
    /\ UNCHANGED <<listenerVars, endpointVars, clientVars, constructionVars, kitVars,
                 subscriberVars>>

PubStart ==
    /\ IF pubDisposed
       THEN /\ pubLast' = [threw |-> TRUE, op |-> "start"]
            /\ UNCHANGED <<pubRunning, drainScheduled, microtasks>>
       ELSE IF pubRunning
       THEN /\ pubLast' = [threw |-> FALSE, op |-> "start"]
            /\ UNCHANGED <<pubRunning, drainScheduled, microtasks>>
       ELSE LET sd == scheduleDrain(TRUE, pubDisposed, draining, drainScheduled)
            IN /\ pubRunning' = TRUE
               /\ drainScheduled' = sd.drainScheduled
               /\ microtasks' = microtasks + sd.queued
               /\ pubLast' = [threw |-> FALSE, op |-> "start"]
    /\ pubSeen' = <<>>
    /\ UNCHANGED <<queue, dropped, pubDisposed, draining, pubDiag, published,
                   sent, evicted, drained, pass, pending>>
    /\ UNCHANGED <<listenerVars, endpointVars, clientVars, constructionVars, kitVars,
                 subscriberVars>>

PubStop ==
    /\ pubRunning' = FALSE
    /\ pubSeen' = <<>>
    /\ pubLast' = [threw |-> FALSE, op |-> "stop"]
    /\ pass' = PassStopped
    /\ UNCHANGED <<queue, dropped, pubDisposed, draining, drainScheduled,
                   microtasks, pubDiag, published, sent, evicted, drained, pending>>
    /\ UNCHANGED <<listenerVars, endpointVars, clientVars, constructionVars, kitVars,
                 subscriberVars>>

\* dispose() that also resets the drop counter
PubDisposeResetsDropped ==
    /\ IF pubDisposed
       THEN UNCHANGED <<pubRunning, queue, pubDisposed, dropped>>
       ELSE /\ pubRunning' = FALSE
            /\ queue' = <<>>
            /\ pubDisposed' = TRUE
            /\ dropped' = 0
    /\ pubSeen' = <<>>
    /\ pubLast' = [threw |-> FALSE, op |-> "dispose"]
    /\ pass' = PassStopped
    /\ UNCHANGED <<draining, drainScheduled, microtasks, pubDiag,
                   published, sent, evicted, drained, pending>>
    /\ UNCHANGED <<listenerVars, endpointVars, clientVars, constructionVars, kitVars,
                 subscriberVars>>

PubDispose ==
    /\ IF pubDisposed
       THEN UNCHANGED <<pubRunning, queue, pubDisposed>>
       ELSE /\ pubRunning' = FALSE
            /\ queue' = <<>>
            /\ pubDisposed' = TRUE
    /\ pubSeen' = <<>>
    /\ pubLast' = [threw |-> FALSE, op |-> "dispose"]
    /\ pass' = PassStopped
    /\ UNCHANGED <<dropped, draining, drainScheduled, microtasks, pubDiag,
                   published, sent, evicted, drained, pending>>
    /\ UNCHANGED <<listenerVars, endpointVars, clientVars, constructionVars, kitVars,
                 subscriberVars>>

\* The payloads of the items in the queue q
Payloads(q) == {q[i].payload : i \in DOMAIN q}

\* The pass p when dispatch returns to drain(): if the send of the item it
\* dispatched threw, the items queued now were queued behind that item
BackInLoop(p) ==
    IF p.outcome = "dispatch_failed"
    THEN [p EXCEPT !.behind = @ \cup Payloads(queue)]
    ELSE p

\* The finally block of drain() under the given drainScheduled flag
drainFinally(sched) ==
    IF pubRunning /\ ~pubDisposed /\ Len(queue) > 0
    THEN scheduleDrain(pubRunning, pubDisposed, FALSE, sched)
    ELSE [queued |-> 0, drainScheduled |-> sched]

\* drain() with an if in place of its while and without the re-arming of its
\* finally block: one item is dispatched per pass
DrainTurnOnce(win, nests, sched, tasks, p) ==
    IF pubRunning /\ ~pubDisposed /\ Len(queue) > 0
    THEN LET next == Head(queue)
             rest == Tail(queue)
             d == dispatch(next, win, Len(rest), dropped, pubDiag)
             p1 == [BackInLoop(p) EXCEPT
                             !.dispatched = @ \cup {next.payload},
                             !.sendThrew = @ \/ (d.sendCalled /\ ~d.sendOk),
                             !.behind = IF d.sendCalled /\ ~d.sendOk
                                        THEN @ \cup Payloads(rest)
                                        ELSE @,
                             !.outcome = dispatchOutcome(next, d),
                             !.next = next]
             sd == IF Len(rest) > 0
                   THEN scheduleDrain(pubRunning, pubDisposed, FALSE, sched)
                   ELSE [queued |-> 0, drainScheduled |-> sched]
         IN /\ queue' = rest
            /\ dropped' = d.dropped
            /\ sent' = IF d.sendOk THEN Append(sent, next.payload) ELSE sent
            /\ drained' = TRUE
            /\ pubSeen' = d.seen
            /\ IF d.threw
               THEN /\ draining' = FALSE
                    /\ drainScheduled' = sd.drainScheduled
                    /\ microtasks' = tasks + sd.queued
                    /\ pass' = [p1 EXCEPT !.endRunning = TRUE]
                    /\ pubLast' = [threw |-> TRUE, op |-> "drain"]
               ELSE /\ draining' = FALSE
                    /\ drainScheduled' = sched
                    /\ microtasks' = tasks
                    /\ pass' = [p1 EXCEPT !.endRunning = TRUE]
                    /\ pubLast' = [threw |-> FALSE, op |-> "drain"]
    ELSE LET sd == drainFinally(sched)
         IN /\ draining' = FALSE
            /\ drainScheduled' = sd.drainScheduled
            /\ microtasks' = tasks + sd.queued
            /\ pass' = [BackInLoop(p) EXCEPT !.endRunning = pubRunning /\ ~pubDisposed]
            /\ pubSeen' = <<>>
            /\ pubLast' = [threw |-> FALSE, op |-> "drain"]
            /\ UNCHANGED <<queue, dropped, sent, drained>>

\* One turn of drain()'s loop with draining = true, under the given
\* drainScheduled flag and pass bookkeeping: either the loop condition holds
\* and the oldest item is taken and dispatched, or the loop ends and the
\* finally block runs.  The step ends inside dispatch unless dispatch threw:
\* after its last call when its callbacks make no call on the publisher, and
\* when they do (`nests`) inside onDecodeFailure for an item that cannot be
\* encoded, inside getWindow() or isDestroyed() before it throws.
DrainTurn(win, nests, sched, tasks, p) ==
    IF pubRunning /\ ~pubDisposed /\ Len(queue) > 0
    THEN LET next == Head(queue)
             rest == Tail(queue)
             encoded == encodeSync(next.event, next.payload)
             d == dispatch(next, win, Len(rest), dropped, pubDiag)
             p1 == [BackInLoop(p) EXCEPT
                             !.dispatched = @ \cup {next.payload},
                             !.sendThrew = @ \/ (d.sendCalled /\ ~d.sendOk),
                             !.behind = IF d.sendCalled /\ ~d.sendOk
                                        THEN @ \cup Payloads(rest)
                                        ELSE @,
                             !.outcome = dispatchOutcome(next, d),
                             !.next = next]
             sd == IF Len(rest) > 0
                   THEN scheduleDrain(pubRunning, pubDisposed, FALSE, sched)
                   ELSE [queued |-> 0, drainScheduled |-> sched]
         IN /\ queue' = rest
            /\ drained' = TRUE
            /\ IF nests /\ ~encoded.ok /\ pubDiag # "absent"
               THEN /\ dropped' = dropped + 1
                    /\ sent' = sent
                    /\ pubSeen' =
                          safelyCall(pubDiag,
                                     DecodeFailureContext(next, encoded.value)).seen
                    /\ draining' = TRUE
                    /\ drainScheduled' = sched
                    /\ microtasks' = tasks
                    /\ pass' = [p1 EXCEPT !.pc = "onDecodeFailure"]
                    /\ pubLast' = [threw |-> FALSE, op |-> "drain"]
               ELSE IF nests /\ encoded.ok /\ win \in WindowThrows
               THEN /\ dropped' = dropped
                    /\ sent' = sent
                    /\ pubSeen' = <<>>
                    /\ draining' = TRUE
                    /\ drainScheduled' = sched
                    /\ microtasks' = tasks
                    /\ pass' = [p1 EXCEPT !.pc = "throwing"]
                    /\ pubLast' = [threw |-> FALSE, op |-> "drain"]
               ELSE /\ dropped' = d.dropped
                    /\ sent' = IF d.sendOk THEN Append(sent, next.payload) ELSE sent
                    /\ pubSeen' = d.seen
                    /\ IF d.threw
                       THEN /\ draining' = FALSE
                            /\ drainScheduled' = sd.drainScheduled
                            /\ microtasks' = tasks + sd.queued
                            /\ pass' = [p1 EXCEPT !.endRunning = TRUE]
                            /\ pubLast' = [threw |-> TRUE, op |-> "drain"]
                       ELSE /\ draining' = TRUE
                            /\ drainScheduled' = sched
                            /\ microtasks' = tasks
                            /\ pass' = p1
                            /\ pubLast' = [threw |-> FALSE, op |-> "drain"]
    ELSE LET sd == drainFinally(sched)
         IN /\ draining' = FALSE
            /\ drainScheduled' = sd.drainScheduled
            /\ microtasks' = tasks + sd.queued
            /\ pass' = [BackInLoop(p) EXCEPT !.endRunning = pubRunning /\ ~pubDisposed]
            /\ pubSeen' = <<>>
            /\ pubLast' = [threw |-> FALSE, op |-> "drain"]
            /\ UNCHANGED <<queue, dropped, sent, drained>>

\* The callback queued by scheduleDrain without its drainScheduled = false
RunMicrotaskKeepsFlag(win, nests) ==
    /\ microtasks > 0
    /\ ~draining
    /\ pending = <<>>
    /\ IF ~pubRunning \/ pubDisposed \/ draining
       THEN /\ microtasks' = microtasks - 1
            /\ pubSeen' = <<>>
            /\ pubLast' = [threw |-> FALSE, op |-> "microtask"]
            /\ UNCHANGED <<queue, dropped, draining, drainScheduled, sent,
                           drained, pass>>
       ELSE DrainTurn(win, nests, drainScheduled, microtasks - 1, IdlePass)
    /\ UNCHANGED <<pubRunning, pubDisposed, pubDiag, published, evicted, pending>>
    /\ UNCHANGED <<listenerVars, endpointVars, clientVars, constructionVars, kitVars,
                 subscriberVars>>

\* The callback queued by scheduleDrain runs: drainScheduled = false; drain().
\* A microtask runs when no function of the publisher is on the call stack.
RunMicrotask(win, nests) ==
    /\ microtasks > 0
    /\ ~draining
    /\ pending = <<>>
    /\ IF ~pubRunning \/ pubDisposed \/ draining
       THEN /\ drainScheduled' = FALSE
            /\ microtasks' = microtasks - 1
            /\ pubSeen' = <<>>
            /\ pubLast' = [threw |-> FALSE, op |-> "microtask"]
            /\ UNCHANGED <<queue, dropped, draining, sent, drained, pass>>
       ELSE DrainTurn(win, nests, FALSE, microtasks - 1, IdlePass)
    /\ UNCHANGED <<pubRunning, pubDisposed, pubDiag, published, evicted, pending>>
    /\ UNCHANGED <<listenerVars, endpointVars, clientVars, constructionVars, kitVars,
                 subscriberVars>>

\* The call that the drain pass is inside returns (or throws) and the pass
\* goes on: after onDecodeFailure, dispatch reads queue.length and dropped
\* and calls onDroppedEvent; an exception of getWindow() or isDestroyed()
\* leaves dispatch and drain() through the finally block; otherwise dispatch
\* has returned to drain()'s loop.
DrainStep(win, nests) ==
    /\ draining
    /\ pending = <<>>
    /\ CASE pass.pc = "onDecodeFailure" ->
              /\ pubSeen' =
                    safelyCall(pubDiag,
                               DroppedContext(pass.next, "encoding_failed",
                                              Len(queue), dropped)).seen
              /\ pass' = [pass EXCEPT !.pc = "loop"]
              /\ pubLast' = [threw |-> FALSE, op |-> "drain"]
              /\ UNCHANGED <<queue, dropped, draining, drainScheduled, microtasks,
                             sent, drained>>
         [] pass.pc = "throwing" ->
              LET sd == drainFinally(drainScheduled)
              IN /\ draining' = FALSE
                 /\ drainScheduled' = sd.drainScheduled
                 /\ microtasks' = microtasks + sd.queued
                 /\ pass' = [pass EXCEPT !.pc = "loop",
                                         !.endRunning = pubRunning /\ ~pubDisposed]
                 /\ pubSeen' = <<>>
                 /\ pubLast' = [threw |-> TRUE, op |-> "drain"]
                 /\ UNCHANGED <<queue, dropped, sent, drained>>
         [] OTHER -> DrainTurn(win, nests, drainScheduled, microtasks, pass)
    /\ UNCHANGED <<pubRunning, pubDisposed, pubDiag, published, evicted, pending>>
    /\ UNCHANGED <<listenerVars, endpointVars, clientVars, constructionVars, kitVars,
                 subscriberVars>>

NextPublisher ==
    \/ \E ok, nests \in BOOLEAN : Publish(ok, nests)
    \/ PublishReturns
    \/ PubStart
    \/ PubStop
    \/ PubDispose
    \/ \E win \in WindowStates, nests \in BOOLEAN : RunMicrotask(win, nests)
    \/ \E win \in WindowStates, nests \in BOOLEAN : DrainStep(win, nests)

\* ------------------------------------------------------------------------
\* testing.ts lines 35-311: createRpcClient
\* ------------------------------------------------------------------------
DecodeModes == {"envelope", "dual"}

\* types.ts lines 65-75, new RpcDefectError(message, cause): an Error with a
\* message and a cause; the class has no code property
RpcDefectError(message, cause) ==
    [k |-> "error", name |-> "RpcDefectError", tag |-> Str("RpcDefectError"),
     message |-> message, cause |-> cause]

\* testing.ts lines 86-92: rpcDefect passes (code, message, cause) to the
\* constructor, whose two parameters are (message, cause): the code becomes
\* the error's message, the message text its cause, and the third argument
\* is dropped
rpcDefect(code, message, cause) == RpcDefectError(code, Str(message))

\* value.code: the property, or undefined for a value that has none
CodeOf(value) ==
    IF "code" \in DOMAIN value THEN Str(value.code) ELSE Undef

\* The result of running the Effect a caller returns
EffectSucceed(value, seen) == [kind |-> "success", value |-> value, seen |-> seen]

EffectFail(error, seen) == [kind |-> "failure", value |-> error, seen |-> seen]

EffectDie(defect, seen) == [kind |-> "die", value |-> defect, seen |-> seen]

\* The catch function of Effect.try / Effect.tryPromise, which calls a
\* diagnostics callback and returns rpcDefect(code, text + formatUnknown(cause),
\* cause): the error it returns becomes the failure of the Effect, an
\* exception that leaves it becomes a defect of the Effect.
CatchWith(sc, code, text, cause) ==
    LET causeText == formatUnknown(cause)
    IN IF sc.threw THEN EffectDie(DiagnosticsThrew, sc.seen)
       ELSE IF ~causeText.ok THEN EffectDie(causeText.value, sc.seen)
       ELSE EffectFail(rpcDefect(code, text \o causeText.value, cause), sc.seen)

EmptyCause == [k |-> "cause", text |-> "All fibers interrupted without errors."]

\* S.Defect, decoding: the defect, or the exception thrown
decodeDefect(u) ==
    IF isRecord(u) /\ isString(Get(u, "message"))
    THEN [ok |-> TRUE,
          value |-> ErrorOf(IF isString(Get(u, "name")) THEN Get(u, "name").s
                            ELSE "Error",
                            Undef, Get(u, "message").s)]
    ELSE IF CanString(u) THEN [ok |-> TRUE, value |-> Str(StringOf(u))]
    ELSE [ok |-> FALSE, value |-> ConversionError]

\* S.decodeUnknownSync(exitSchemaFor(method))(raw): the Exit, or the
\* exception thrown
decodeExit(m, raw) ==
    LET cause == Get(raw, "cause")
        bad == [ok |-> FALSE, value |-> ParseError("Exit", raw)]
    IN IF raw.k # "obj"
       THEN bad
       ELSE IF Get(raw, "_tag") = Str("Success")
       THEN LET value == decodeUnknownSync(MethodRes(m), Get(raw, "value"))
            IN IF value.ok THEN [ok |-> TRUE, value |-> ExitSuccess(value.value)]
               ELSE bad
       ELSE IF Get(raw, "_tag") # Str("Failure") \/ cause.k # "obj"
       THEN bad
       ELSE CASE Get(cause, "_tag") = Str("Fail") ->
                    LET error == decodeUnknownSync(MethodErr(m), Get(cause, "error"))
                    IN IF error.ok
                       THEN [ok |-> TRUE, value |-> ExitFailure("Fail", error.value)]
                       ELSE bad
              [] Get(cause, "_tag") = Str("Die") ->
                    LET defect == decodeDefect(Get(cause, "defect"))
                    IN IF ~hasOwn(cause, "defect") THEN bad
                       ELSE IF ~defect.ok THEN defect
                       ELSE [ok |-> TRUE, value |-> ExitFailure("Die", defect.value)]
              [] Get(cause, "_tag") = Str("Interrupt") ->
                    IF Get(cause, "fiberId").k = "obj"
                    THEN [ok |-> TRUE, value |-> ExitFailure("Interrupt", InterruptCause)]
                    ELSE bad
              [] Get(cause, "_tag") = Str("Empty") ->
                    [ok |-> TRUE, value |-> ExitFailure("Empty", EmptyCause)]
              [] OTHER -> bad

decodeLegacyExit(m, raw) ==
    LET decoded == decodeExit(m, raw)
        exit == decoded.value
    IN IF ~decoded.ok
       THEN CatchWith([threw |-> FALSE, seen |-> <<>>],
                      "legacy_decode_failed",
                      "RPC " \o m \o " legacy response decoding failed: ",
                      decoded.value)
       ELSE IF exit.tag = "Success"
       THEN EffectSucceed(exit.value, <<>>)
       ELSE IF exit.cause = "Fail"
       THEN EffectFail(exit.value, <<>>)
       ELSE IF exit.cause = "Die"
       THEN EffectFail(
                rpcDefect("remote_defect",
                          IF exit.value.k = "error" THEN exit.value.message
                          ELSE StringOf(exit.value),
                          exit.value),
                <<>>)
       ELSE EffectFail(
                rpcDefect("remote_defect",
                          "RPC call was interrupted or failed unexpectedly",
                          exit.value),
                <<>>)

decodeEnvelope(m, envelope, diag) ==
    CASE Get(envelope, "type") = Str("success") ->
            LET decoded == decodeUnknownSync(MethodRes(m), Get(envelope, "data"))
            IN IF decoded.ok
               THEN EffectSucceed(decoded.value, <<>>)
               ELSE CatchWith(
                        safelyCall(diag, [hook |-> "onDecodeFailure",
                                          scope |-> "rpc-response",
                                          name |-> m,
                                          cause |-> decoded.value,
                                          payload |-> Get(envelope, "data")]),
                        "success_payload_decoding_failed",
                        "RPC " \o m \o " success payload decoding failed: ",
                        decoded.value)
      [] Get(envelope, "type") = Str("failure") ->
            IF isNoErrorSchema(MethodErr(m))
            THEN EffectFail(
                     rpcDefect("noerror_contract_violation",
                               "RPC " \o m
                                   \o " received a failure for a method that declares NoError",
                               Get(envelope, "error")),
                     <<>>)
            ELSE LET decoded == decodeUnknownSync(MethodErr(m),
                                                  Get(Get(envelope, "error"), "data"))
                 IN IF decoded.ok
                    THEN EffectFail(decoded.value, <<>>)
                    ELSE CatchWith(
                             safelyCall(diag, [hook |-> "onDecodeFailure",
                                               scope |-> "rpc-response",
                                               name |-> m,
                                               cause |-> decoded.value,
                                               payload |-> Get(envelope, "error")]),
                             "failure_payload_decoding_failed",
                             "RPC " \o m \o " failure payload decoding failed: ",
                             decoded.value)
      [] Get(envelope, "type") = Str("defect") ->
            EffectFail(rpcDefect("remote_defect", Get(envelope, "message").s,
                                 Get(envelope, "cause")),
                       <<>>)

\* call(method, input) up to the invoke: the request is encoded; the call
\* is finished (done) if that fails, and waits for the transport otherwise.
callRequest(m, input, diag) ==
    LET encoded == encodeSync(MethodReq(m), input)
    IN IF encoded.ok
       THEN [done |-> FALSE, encoded |-> encoded.value,
             out |-> [kind |-> "none", value |-> Undef, seen |-> <<>>]]
       ELSE [done |-> TRUE, encoded |-> Undef,
             out |-> CatchWith(
                 safelyCall(diag, [hook |-> "onDecodeFailure",
                                   scope |-> "rpc-request",
                                   name |-> m,
                                   cause |-> encoded.value,
                                   payload |-> input]),
                 "request_encoding_failed",
                 "RPC " \o m \o " request encoding failed: ",
                 encoded.value)]

\* call(method, input) when the promise of invoke rejects with cause
callInvokeFailed(m, cause, diag) ==
    CatchWith(
        safelyCall(diag, [hook |-> "onProtocolError", method |-> m,
                          cause |-> cause, response |-> Undef]),
        "invoke_failed", "RPC " \o m \o " invoke failed: ", cause)

\* call that, in dual mode, tries the legacy Exit interpretation before the
\* envelope one
callResponseLegacyFirst(m, raw, mode, diag) ==
    LET legacy == decodeLegacyExit(m, raw)
        envelope == parseRpcResponseEnvelope(raw)
        legacyFailed == ~decodeExit(m, raw).ok
    IN IF mode = "dual" /\ ~legacyFailed
       THEN legacy
       ELSE IF envelope # Null
       THEN decodeEnvelope(m, envelope, diag)
       ELSE EffectFail(rpcDefect("invalid_response_envelope",
                                 "RPC " \o m \o " response was not a valid envelope.",
                                 raw),
                       <<>>)

\* call(method, input) when the promise of invoke resolves with raw
callResponse(m, raw, mode, diag) ==
    LET envelope == parseRpcResponseEnvelope(raw)
    IN IF envelope # Null
       THEN decodeEnvelope(m, envelope, diag)
       ELSE IF mode = "dual"
       THEN LET legacy == decodeLegacyExit(m, raw)
            IN IF /\ legacy.kind = "failure"
                  /\ legacy.value.name = "RpcDefectError"
                  /\ CodeOf(legacy.value) = Str("legacy_decode_failed")
               THEN LET sc == safelyCall(diag, [hook |-> "onProtocolError",
                                                method |-> m,
                                                cause |-> legacy.value,
                                                response |-> raw])
                    IN IF sc.threw THEN EffectDie(DiagnosticsThrew, sc.seen)
                       ELSE EffectFail(legacy.value, sc.seen)
               ELSE legacy
       ELSE LET cause == rpcDefect("invalid_response_envelope",
                                   "RPC " \o m \o " response was not a valid envelope.",
                                   raw)
                sc == safelyCall(diag, [hook |-> "onProtocolError",
                                        method |-> m,
                                        cause |-> cause,
                                        response |-> raw])
            IN IF sc.threw THEN EffectDie(DiagnosticsThrew, sc.seen)
               ELSE EffectFail(cause, sc.seen)

\* The payload a generated caller passes to call for its argument list
caller(args) == IF Len(args) = 0 THEN Obj(<<>>) ELSE args[1]

\* ------------------------------------------------------------------------
\* Calls made through the client's callers
\* ------------------------------------------------------------------------
ClientCallIds == 1..MaxClientCalls

\* The argument lists callers are called with
CallerArgs(m) ==
    IF m = "Add"
    THEN {<<>>, <<Obj([a |-> Num(4), b |-> Num(6)])>>}
    ELSE {<<>>, <<Null>>}

EncodedDomainError(message) ==
    Obj([_tag |-> Str("DomainError"), message |-> Str(message)])

\* What the transport's invoke resolves with: envelopes, legacy encoded
\* Exits, a value of both shapes, and values of neither shape
Responses ==
    {Obj([type |-> Str("success"), data |-> Obj([sum |-> Num(10)])]),
     Obj([type |-> Str("success"), data |-> Obj([ok |-> Bool(TRUE)])]),
     Obj([type |-> Str("failure"),
          error |-> Obj([tag |-> Str("DomainError"),
                         data |-> EncodedDomainError("denied")])]),
     Obj([type |-> Str("failure"),
          error |-> Obj([tag |-> Str("DomainError"),
                         data |-> Obj([_tag |-> Str("DomainError")])])]),
     Obj([type |-> Str("defect"), message |-> Str("RPC defect: boom"),
          cause |-> Str("boom")]),
     Obj([type |-> Str("success")]),
     Undef,
     Obj([type |-> Str("success"), _tag |-> Str("Success"),
         value |-> Obj([sum |-> Num(999)]), data |-> Obj([sum |-> Str("wrong-type")])]),
     Obj([_tag |-> Str("Success"), value |-> Obj([sum |-> Num(10)])]),
     Obj([_tag |-> Str("Failure"),
         cause |-> Obj([_tag |-> Str("Fail"),
                            error |-> EncodedDomainError("denied-legacy")])]),
     Obj([_tag |-> Str("Failure"),
         cause |-> Obj([_tag |-> Str("Die"),
                            defect |-> Obj([name |-> Str("RuntimeException"),
                                                 message |-> Str("legacy-die")])])]),
     Obj([_tag |-> Str("Failure"),
         cause |-> Obj([_tag |-> Str("Die"), defect |-> Str("boom")])]),
     Obj([_tag |-> Str("Failure"),
         cause |-> Obj([_tag |-> Str("Interrupt"),
                            fiberId |-> Obj([_tag |-> Str("None")])])]),
     Obj([_tag |-> Str("Failure"), cause |-> Obj([_tag |-> Str("Empty")])]),
     \* envelopes at the edge of validity
     Obj([type |-> Str("success"), data |-> Null]),
     Obj([type |-> Str("success"), data |-> Undef]),
     Obj([type |-> Str("failure"),
          error |-> Obj([tag |-> Str("X"), data |-> Undef])]),
     Obj([type |-> Str("defect"), message |-> Str("boom")]),
     Obj([type |-> Str("defect"), message |-> Str(""), cause |-> Undef]),
     \* values that are no envelope
     Null, Num(42), Str("oops"), Bare, Obj(<<>>),
     Obj([type |-> Num(1), data |-> Obj(<<>>)]),
     Obj([type |-> Str("wat"), data |-> Obj(<<>>)]),
     Obj([type |-> Str("failure")]),
     Obj([type |-> Str("failure"), error |-> Str("X")]),
     Obj([type |-> Str("failure"),
          error |-> Obj([tag |-> Num(1), data |-> Obj(<<>>)])]),
     Obj([type |-> Str("failure"), error |-> Obj([tag |-> Str("X")])]),
     Obj([type |-> Str("defect"), cause |-> Str("x")]),
     Obj([type |-> Str("defect"), message |-> Num(42), cause |-> Str("x")])}

\* What the promise of invoke rejects with
InvokeRejections == {ErrorOf("Error", Undef, "ipc down"), Str("ipc down"), Bare}

IdleClientCall ==
    [pc |-> "idle", method |-> "", raw |-> Undef, args |-> <<>>, encoded |-> Undef,
     out |-> [kind |-> "none", value |-> Undef, seen |-> <<>>],
     settled |-> "none", envelope |-> Null]

InitClient(modes, diags) ==
    /\ ccalls = [i \in ClientCallIds |-> IdleClientCall]
    /\ decodeMode \in modes
    /\ clDiag \in diags
    /\ clDiagLog = <<>>
    /\ invocations = <<>>

\* A caller is called and its Effect is run as far as the invoke
ClientCall(i, m, args) ==
    /\ ccalls[i].pc = "idle"
    /\ \A j \in ClientCallIds : j < i => ccalls[j].pc # "idle"
    /\ LET r == callRequest(m, caller(args), clDiag)
       IN /\ ccalls' = [ccalls EXCEPT ![i] =
                 [pc |-> IF r.done THEN "done" ELSE "invoking", method |-> m,
                  raw |-> Undef, args |-> args, encoded |-> r.encoded, out |-> r.out,
                  settled |-> "none", envelope |-> Null]]
          /\ clDiagLog' = clDiagLog \o r.out.seen
          /\ invocations' = IF r.done THEN invocations
                            ELSE Append(invocations,
                                        [method |-> m, payload |-> r.encoded])
    /\ UNCHANGED <<decodeMode, clDiag>>
    /\ UNCHANGED <<listenerVars, endpointVars, publisherVars, constructionVars, kitVars,
                 subscriberVars>>

\* The promise of invoke resolves with raw
InvokeResolves(i, raw) ==
    /\ ccalls[i].pc = "invoking"
    /\ LET out == callResponse(ccalls[i].method, raw, decodeMode, clDiag)
       IN /\ ccalls' = [ccalls EXCEPT ![i].pc = "done", ![i].raw = raw, ![i].out = out,
                                      ![i].settled = "resolved",
                                      ![i].envelope = parseRpcResponseEnvelope(raw)]
          /\ clDiagLog' = clDiagLog \o out.seen
    /\ UNCHANGED <<decodeMode, clDiag, invocations>>
    /\ UNCHANGED <<listenerVars, endpointVars, publisherVars, constructionVars, kitVars,
                 subscriberVars>>

\* The promise of invoke rejects with cause
InvokeRejects(i, cause) ==
    /\ ccalls[i].pc = "invoking"
    /\ LET out == callInvokeFailed(ccalls[i].method, cause, clDiag)
       IN /\ ccalls' = [ccalls EXCEPT ![i].pc = "done", ![i].raw = cause,
                                      ![i].out = out, ![i].settled = "rejected"]
          /\ clDiagLog' = clDiagLog \o out.seen
    /\ UNCHANGED <<decodeMode, clDiag, invocations>>
    /\ UNCHANGED <<listenerVars, endpointVars, publisherVars, constructionVars, kitVars,
                 subscriberVars>>

NextClient ==
    \/ \E i \in ClientCallIds, m \in ClientMethods :
           \E args \in CallerArgs(m) : ClientCall(i, m, args)
    \/ \E i \in ClientCallIds, raw \in Responses : InvokeResolves(i, raw)
    \/ \E i \in ClientCallIds, cause \in InvokeRejections : InvokeRejects(i, cause)

\* ------------------------------------------------------------------------
\* Constructor calls
\* ------------------------------------------------------------------------
InitConstruction == created = <<>>

\* createEventPublisher(contract, {getWindow, maxQueueSize: option})
CreateEventPublisher(option) ==
    /\ Len(created) < MaxConstructions
    /\ LET size == clampQueueSize(option)
       IN created' = Append(created,
              [ok |-> size.ok, op |-> "createEventPublisher",
               value |-> IF size.ok THEN Undef ELSE size.value,
               input |-> option,
               result |-> IF size.ok THEN size.value ELSE Undef])
    /\ UNCHANGED <<listenerVars, endpointVars, publisherVars, clientVars, kitVars,
                 subscriberVars>>

\* createRpcEndpoint(contract, ipc, implementations, options)
CreateRpcEndpoint(methods, implementations) ==
    /\ Len(created) < MaxConstructions
    /\ LET endpoint == createRpcEndpoint(methods, implementations)
       IN created' = Append(created,
              [ok |-> endpoint.ok, op |-> "createRpcEndpoint",
               value |-> endpoint.value,
               input |-> [methods |-> methods, implementations |-> implementations],
               result |-> endpoint.handlers])
    /\ UNCHANGED <<listenerVars, endpointVars, publisherVars, clientVars, kitVars,
                 subscriberVars>>

NextConstruction ==
    \/ \E option \in QueueSizeOptions : CreateEventPublisher(option)
    \/ \E methods \in Contracts :
           \E implementations \in ImplementationMaps(methods) :
               CreateRpcEndpoint(methods, implementations)

\* ------------------------------------------------------------------------
\* createIpcKit(...).main(): the handle over one endpoint and one publisher
\* ------------------------------------------------------------------------
PublisherDisposedError == "Event publisher has already been disposed."

\* publisher.start() on a publisher that is not disposed
publisherStart(ep) ==
    IF ep.pubRunning
    THEN [ep EXCEPT !.pubLast = [threw |-> FALSE, op |-> "start"]]
    ELSE LET sd == scheduleDrain(TRUE, ep.pubDisposed, draining, ep.drainScheduled)
         IN [ep EXCEPT !.pubRunning = TRUE,
                       !.drainScheduled = sd.drainScheduled,
                       !.microtasks = @ + sd.queued,
                       !.pubLast = [threw |-> FALSE, op |-> "start"]]

\* publisher.start() on a disposed publisher, which throws
publisherStartThrows(ep) ==
    [ep EXCEPT !.pubLast = [threw |-> TRUE, op |-> "start"]]

\* publisher.stop()
publisherStop(ep) ==
    [ep EXCEPT !.pubRunning = FALSE, !.stopped = TRUE,
               !.pubLast = [threw |-> FALSE, op |-> "stop"]]

\* publisher.dispose()
publisherDispose(ep) ==
    IF ep.pubDisposed
    THEN [ep EXCEPT !.stopped = TRUE,
                    !.pubLast = [threw |-> FALSE, op |-> "dispose"]]
    ELSE [ep EXCEPT !.pubRunning = FALSE, !.queue = <<>>, !.pubDisposed = TRUE,
                    !.stopped = TRUE,
                    !.pubLast = [threw |-> FALSE, op |-> "dispose"]]

\* publisher.publish(Progress, payload) run on a publisher without
\* diagnostics callbacks: a no-op when disposed, otherwise enqueue evicts the
\* oldest item of a full queue, pushes the item and calls scheduleDrain()
publisherPublish(ep, ok) ==
    LET item == QueueItem(Len(ep.published) + 1, ok)
        called == [ep EXCEPT !.published = Append(@, item.payload),
                             !.pubLast = [threw |-> FALSE, op |-> "publish"]]
        full == Len(ep.queue) >= maxQueueSize
        sd == scheduleDrain(ep.pubRunning, ep.pubDisposed, draining,
                            ep.drainScheduled)
    IN IF ep.pubDisposed
       THEN called
       ELSE [called EXCEPT
                 !.queue = Append(IF full THEN Tail(@) ELSE @, item),
                 !.dropped = IF full THEN @ + 1 ELSE @,
                 !.evicted = IF full THEN @ \cup {Head(ep.queue).payload} ELSE @,
                 !.drainScheduled = sd.drainScheduled,
                 !.microtasks = @ + sd.queued]

\* One call of publisher.start(), publisher.stop(), publisher.dispose() or
\* publish made from inside the registrar, and how it ends
publisherCalls(ep) ==
    {IF ep.pubDisposed
     THEN Threw(publisherStartThrows(ep), PublisherDisposedError)
     ELSE publisherStart(ep),
     publisherStop(ep), publisherDispose(ep)}
        \cup IF Len(ep.published) < MaxPublish
             THEN {publisherPublish(ep, ok) : ok \in BOOLEAN}
             ELSE {}

\* isRunning() of the handle
kitIsRunning == isRunning /\ pubRunning

InitKit == kitLast = NoCall("none")

\* A call on the handle that is not made from inside the registrar logs the
\* component call it makes next
Attempts(ep, call) ==
    IF ep.depth = 0 THEN [ep EXCEPT !.kit.attempted = Append(@, call)] ELSE ep

\* A call on the handle throws the error: to its caller, or to the registrar
\* that made the call
HandleThrew(ep, error) ==
    IF ep.depth = 0
    THEN [ep EXCEPT !.kit.result = "threw", !.kit.error = error]
    ELSE Threw(ep, error)

\* start() of the handle, every way it can end: endpoint.start(), then
\* publisher.start(); when that throws, endpoint.stop() with its exception
\* swallowed, and the publisher's exception again
handleStart(ep) ==
    UNION {IF Throws(e)
           THEN {HandleThrew(e, e.last.error)}
           ELSE IF e.pubDisposed
           THEN {HandleThrew(s, PublisherDisposedError) :
                    s \in stop(Fresh(Attempts(Attempts(publisherStartThrows(e),
                                                       "publisher.start"),
                                              "endpoint.stop"),
                                     "stop"))}
           ELSE {publisherStart(Attempts(e, "publisher.start"))} :
              e \in start(Fresh(Attempts(ep, "endpoint.start"), "start"))}

\* stop() of the handle, every way it can end: publisher.stop(), which does
\* not throw, then endpoint.stop(), whose exception is thrown again
handleStop(ep) ==
    {IF Throws(r) THEN HandleThrew(r, r.last.error) ELSE r :
        r \in stop(Fresh(Attempts(Attempts(publisherStop(ep), "publisher.stop"),
                                  "endpoint.stop"),
                         "stop"))}

\* dispose() of the handle, every way it can end: publisher.dispose(), which
\* does not throw, then endpoint.dispose(), whose exception is thrown again
handleDispose(ep) ==
    {IF Throws(r) THEN HandleThrew(r, r.last.error) ELSE r :
        r \in dispose(Fresh(Attempts(Attempts(publisherDispose(ep),
                                              "publisher.dispose"),
                                     "endpoint.dispose"),
                            "dispose"))}

\* What a call on the handle or on one of its components that ended in r
\* leaves in the endpoint, in the publisher and in the log of the handle
KitLeft(r) ==
    /\ lifecycleOps < MaxKitCalls
    /\ Left(r)
    /\ kitLast' = r.kit
    /\ pubRunning' = r.pubRunning
    /\ pubDisposed' = r.pubDisposed
    /\ queue' = r.queue
    /\ drainScheduled' = r.drainScheduled
    /\ microtasks' = r.microtasks
    /\ pubLast' = r.pubLast
    /\ pass' = IF r.stopped THEN PassStopped ELSE pass
    /\ pubSeen' = <<>>
    /\ published' = r.published
    /\ dropped' = r.dropped
    /\ evicted' = r.evicted
    /\ UNCHANGED <<draining, pubDiag, sent, drained, pending>>
    /\ UNCHANGED <<listenerVars, clientVars, constructionVars, subscriberVars>>

\* A call of start, stop or dispose through the handle's endpoint property:
\* the log of the handle names the function and how the call ended
EndpointMember(r, call) ==
    [r EXCEPT !.kit = [op |-> call,
                       error |-> IF Throws(r) THEN r.last.error ELSE "",
                       result |-> r.last.result, attempted |-> <<call>>]]

\* A call of a function through the handle's publisher property, which
\* leaves the endpoint and the log of its last call alone
PublisherMember(call, threw) ==
    [Entering(call, TRUE) EXCEPT
         !.last = lastOp,
         !.kit = [op |-> call,
                  error |-> IF threw THEN PublisherDisposedError ELSE "",
                  result |-> IF threw THEN "threw" ELSE "ok",
                  attempted |-> <<call>>]]

\* start() of the handle
KitStart == \E r \in handleStart(Entering("start", TRUE)) : KitLeft(r)

\* stop() of the handle
KitStop == \E r \in handleStop(Entering("stop", TRUE)) : KitLeft(r)

\* dispose() of the handle
KitDispose == \E r \in handleDispose(Entering("dispose", TRUE)) : KitLeft(r)

\* handle.endpoint.start()
KitEndpointStart ==
    \E r \in start(Entering("start", TRUE)) :
        KitLeft(EndpointMember(r, "endpoint.start"))

\* handle.endpoint.stop()
KitEndpointStop ==
    \E r \in stop(Entering("stop", TRUE)) :
        KitLeft(EndpointMember(r, "endpoint.stop"))

\* handle.endpoint.dispose()
KitEndpointDispose ==
    \E r \in dispose(Entering("dispose", TRUE)) :
        KitLeft(EndpointMember(r, "endpoint.dispose"))

\* handle.publisher.start()
KitPublisherStart ==
    \E r \in {IF pubDisposed
              THEN publisherStartThrows(PublisherMember("publisher.start", TRUE))
              ELSE publisherStart(PublisherMember("publisher.start", FALSE))} :
        KitLeft(r)

\* handle.publisher.stop()
KitPublisherStop ==
    \E r \in {publisherStop(PublisherMember("publisher.stop", FALSE))} : KitLeft(r)

\* handle.publisher.dispose()
KitPublisherDispose ==
    \E r \in {publisherDispose(PublisherMember("publisher.dispose", FALSE))} :
        KitLeft(r)

\* handle.publish(event, payload), which is publisher.publish
KitPublish(ok) ==
    /\ Len(published) < MaxPublish
    /\ \E r \in {publisherPublish(
                     [PublisherMember("publish", FALSE) EXCEPT
                          !.kit.attempted = <<"publisher.publish">>], ok)} :
           KitLeft(r)

\* handle.stats(), which is publisher.stats: it reads the queue's length and
\* the drop counter and changes nothing
KitStats ==
    /\ lifecycleOps < MaxKitCalls
    /\ lifecycleOps' = lifecycleOps + 1
    /\ stats = [queued |-> Len(queue), dropped |-> dropped]
    /\ kitLast' = [op |-> "stats", error |-> "", result |-> "ok",
                   attempted |-> <<"publisher.stats">>]
    /\ UNCHANGED <<running, disposed, handlers, lastOp, disposeCalled, handleCalls,
                   removeCalls, registrarThrew, reentries>>
    /\ UNCHANGED <<listenerVars, publisherVars, clientVars, constructionVars,
                   subscriberVars>>

\* The calls on the handle and on its endpoint and publisher properties,
\* and the publisher's drain
NextKit ==
    \/ KitStart
    \/ KitStop
    \/ KitDispose
    \/ KitEndpointStart
    \/ KitEndpointStop
    \/ KitEndpointDispose
    \/ KitPublisherStart
    \/ KitPublisherStop
    \/ KitPublisherDispose
    \/ \E ok \in BOOLEAN : KitPublish(ok)
    \/ KitStats
    \/ \E win \in WindowStates, nests \in BOOLEAN : RunMicrotask(win, nests)
    \/ \E win \in WindowStates, nests \in BOOLEAN : DrainStep(win, nests)

\* ------------------------------------------------------------------------
\* testing.ts lines 313-424: createEventSubscriber
\* ------------------------------------------------------------------------
\* The transport unsubscribe functions: the n-th subscribe() call gets n
SubIds == 1..MaxSubscriptions

\* The names of the contract's events (eventMap), and the names that
\* subscribeByName is called with
ContractEvents == {"Progress"}

EventNames == ContractEvents \cup {"Missing"}

UnsubscribeError(i) == "unsubscribe failed for " \o ToString(i)

\* The members of the Set subscriptions
Active == {subscriptions[j] : j \in DOMAIN subscriptions}

InitSubscriber(throwing) ==
    /\ subscriptions = <<>>
    /\ subscribeCalls = 0
    /\ unsubscribeCalls = [i \in SubIds |-> 0]
    /\ unsubThrows \in throwing
    /\ subLast = [threw |-> FALSE, op |-> "none", error |-> ""]

\* The subscriber at the moment a call on it begins: no exception is on its
\* way, and the transport's unsubscribe functions have made no call yet
EnteringSubscriber ==
    [threw |-> FALSE, error |-> "", reentries |-> 0,
     subscriptions |-> subscriptions, subscribeCalls |-> subscribeCalls,
     unsubscribeCalls |-> unsubscribeCalls]

\* The members of the Set in the state s
Members(s) == {s.subscriptions[j] : j \in DOMAIN s.subscriptions}

\* A transport unsubscribe function catches the exception of the call it made
CaughtBySubscription(s) == [s EXCEPT !.threw = FALSE, !.error = ""]

RECURSIVE unsubscribe(_, _), returned(_, _), disposeFrom(_, _, _)
RECURSIVE callsSubscriber(_), callsBackFrom(_)

\* registerUnsubscribe(unsubscribe): subscriptions.add(unsubscribe), for the
\* unsubscribe function the transport's subscribe has just returned
registerUnsubscribe(s) ==
    [s EXCEPT !.subscribeCalls = @ + 1,
              !.subscriptions = Append(@, s.subscribeCalls + 1)]

\* subscribe(event, handler), every way it can end, while the transport has
\* unsubscribe functions left to hand out
subscribeEvent(s) ==
    IF s.subscribeCalls < MaxSubscriptions THEN {registerUnsubscribe(s)} ELSE {}

\* subscribeByName(name, handler), every way it can end: a name that is not
\* in eventMap throws before the transport's subscribe is called
subscribeByName(name, s) ==
    IF name \notin ContractEvents
    THEN {[s EXCEPT !.threw = TRUE, !.error = "Unknown event: " \o name]}
    ELSE subscribeEvent(s)

\* dispose(), every way it can end, from the member of the Set that follows
\* `visited` in insertion order: for (const unsubscribe of subscriptions)
\* { try { unsubscribe() } catch (cause) { firstError ??= cause } }, then
\* subscriptions.clear(), then throw firstError if one was caught.  The loop
\* reads the Set as it is when it moves on: it skips a member deleted before
\* its turn and reaches a member added during the loop.
disposeFrom(visited, s, firstError) ==
    LET ahead == {i \in Members(s) : i > visited}
    IN IF ahead = {}
       THEN {[s EXCEPT !.subscriptions = <<>>,
                       !.threw = firstError # "",
                       !.error = firstError]}
       ELSE LET i == CHOOSE x \in ahead : \A y \in ahead : x <= y
            IN UNION {disposeFrom(i, CaughtBySubscription(r),
                                  IF firstError = "" /\ r.threw
                                  THEN r.error ELSE firstError) :
                         r \in unsubscribe(i, s)}

\* One call that a transport unsubscribe function makes on the subscriber
\* from inside its own call, and how it ends
callsSubscriber(s) ==
    LET inside == [s EXCEPT !.reentries = @ + 1]
    IN UNION {returned(i, inside) : i \in 1..s.subscribeCalls}
           \cup subscribeEvent(inside)
           \cup UNION {subscribeByName(name, inside) : name \in EventNames}
           \cup disposeFrom(0, inside, "")

\* What a transport unsubscribe function does before it ends: nothing, or
\* calls on the subscriber (at most MaxSubscriberReentries during one outer
\* call); an exception of such a call leaves the function unless the
\* function catches it
callsBackFrom(s) ==
    {s} \cup IF s.reentries < MaxSubscriberReentries
             THEN UNION {IF n.threw
                         THEN {n} \cup callsBackFrom(CaughtBySubscription(n))
                         ELSE callsBackFrom(n) : n \in callsSubscriber(s)}
             ELSE {}

\* The transport unsubscribe function of the i-th subscription is invoked,
\* every way it can end: the functions in unsubThrows end by throwing
unsubscribe(i, s) ==
    {IF ~r.threw /\ i \in unsubThrows
     THEN [r EXCEPT !.threw = TRUE, !.error = UnsubscribeError(i)]
     ELSE r :
        r \in callsBackFrom([s EXCEPT !.unsubscribeCalls[i] = @ + 1])}

\* The function registerUnsubscribe returned for the i-th subscription:
\* if (subscriptions.delete(unsubscribe)) unsubscribe()
returned(i, s) ==
    IF i \in Members(s)
    THEN unsubscribe(i, [s EXCEPT !.subscriptions =
                                     SelectSeq(@, LAMBDA x : x # i)])
    ELSE {s}

\* What a call on the subscriber that ended in r leaves
SubscriberLeft(r, op) ==
    /\ subscriptions' = r.subscriptions
    /\ subscribeCalls' = r.subscribeCalls
    /\ unsubscribeCalls' = r.unsubscribeCalls
    /\ subLast' = [threw |-> r.threw, op |-> op, error |-> r.error]
    /\ UNCHANGED unsubThrows
    /\ UNCHANGED <<listenerVars, endpointVars, publisherVars, clientVars,
                   constructionVars, kitVars>>

\* subscribe(event, handler)
Subscribe ==
    \E r \in subscribeEvent(EnteringSubscriber) : SubscriberLeft(r, "subscribe")

\* subscribeByName(name, handler)
SubscribeByName(name) ==
    \E r \in subscribeByName(name, EnteringSubscriber) :
        SubscriberLeft(r, "subscribeByName")

\* The function subscribe or subscribeByName returned for the i-th
\* subscription
Unsubscribe(i) ==
    /\ i <= subscribeCalls
    /\ \E r \in returned(i, EnteringSubscriber) : SubscriberLeft(r, "unsubscribe")

\* dispose()
SubDispose ==
    \E r \in disposeFrom(0, EnteringSubscriber, "") : SubscriberLeft(r, "dispose")

NextSubscriber ==
    \/ Subscribe
    \/ \E name \in EventNames : SubscribeByName(name)
    \/ \E i \in SubIds : Unsubscribe(i)
    \/ SubDispose

\* ------------------------------------------------------------------------
\* Specifications: one per component; the other components stay as built.
\* ------------------------------------------------------------------------
InitOfListener ==
    /\ InitListener(DiagModes) /\ InitEndpoint /\ InitPublisher({"absent"})
    /\ InitClient({"envelope"}, {"absent"}) /\ InitConstruction
    /\ InitKit /\ InitSubscriber({{}})

InitOfEndpoint ==
    /\ InitListener({"absent"}) /\ InitEndpoint /\ InitPublisher({"absent"})
    /\ InitClient({"envelope"}, {"absent"}) /\ InitConstruction
    /\ InitKit /\ InitSubscriber({{}})

InitOfPublisher ==
    /\ InitListener({"absent"}) /\ InitEndpoint /\ InitPublisher(DiagModes)
    /\ InitClient({"envelope"}, {"absent"}) /\ InitConstruction
    /\ InitKit /\ InitSubscriber({{}})

InitOfClient ==
    /\ InitListener({"absent"}) /\ InitEndpoint /\ InitPublisher({"absent"})
    /\ InitClient(DecodeModes, DiagModes) /\ InitConstruction
    /\ InitKit /\ InitSubscriber({{}})

SpecListener == InitOfListener /\ [][NextListener]_vars

SpecEndpoint == InitOfEndpoint /\ [][NextEndpoint]_vars

SpecPublisher == InitOfPublisher /\ [][NextPublisher]_vars

\* A publisher whose diagnostics callbacks all throw
InitOfPublisherLive ==
    /\ InitListener({"absent"}) /\ InitEndpoint /\ InitPublisher({"throws"})
    /\ InitClient({"envelope"}, {"absent"}) /\ InitConstruction
    /\ InitKit /\ InitSubscriber({{}})

\* The publisher with its scheduling: a callback handed to queueMicrotask
\* runs, and drain()'s synchronous loop goes on once dispatch has returned.
SpecPublisherLive ==
    /\ InitOfPublisherLive /\ [][NextPublisher]_vars
    /\ WF_vars(PublishReturns)
    /\ WF_vars(\E win \in WindowStates, nests \in BOOLEAN : RunMicrotask(win, nests))
    /\ WF_vars(\E win \in WindowStates, nests \in BOOLEAN : DrainStep(win, nests))

SpecClient == InitOfClient /\ [][NextClient]_vars

\* Constructors called on their own, before any component is used
InitOfConstruction == InitOfEndpoint

SpecConstruction == InitOfConstruction /\ [][NextConstruction]_vars

\* The handle of createIpcKit(...).main() over a fresh endpoint and publisher
InitOfKit == InitOfEndpoint

SpecKit == InitOfKit /\ [][NextKit]_vars

\* A subscriber over a transport some of whose unsubscribe functions throw
InitOfSubscriber ==
    /\ InitListener({"absent"}) /\ InitEndpoint /\ InitPublisher({"absent"})
    /\ InitClient({"envelope"}, {"absent"}) /\ InitConstruction
    /\ InitKit /\ InitSubscriber(SUBSET SubIds)

SpecSubscriber == InitOfSubscriber /\ [][NextSubscriber]_vars

\* ------------------------------------------------------------------------
\* Claims about the endpoint's listeners (SpecListener)
\* ------------------------------------------------------------------------
FinishedCalls == {i \in CallIds : calls[i].pc = "done"}

EnvelopeType(envelope) == Get(envelope, "type")

\* C1: every inbound call that has finished, whatever its payload, its
\* implementation's behaviour and the diagnostics callback did, ended with
\* the listener returning a value that is a response envelope; no call ended
\* with an exception leaving the listener.
C1_ListenerAlwaysReturnsEnvelope ==
    \A i \in FinishedCalls :
        /\ calls[i].out.kind = "returned"
        /\ parseRpcResponseEnvelope(calls[i].out.value) # Null

\* The envelope the contract promises for a call, from its raw payload and
\* its implementation's behaviour alone; none when the implementation raised
\* a value that no defect envelope can be built from.
PromisedEnvelope(c) ==
    LET decodable == IF c.method = "Add"
                     THEN hasOwn(c.raw, "a") /\ hasOwn(c.raw, "b")
                     ELSE c.raw # Null
    IN CASE decodable /\ c.method = "Add" /\ c.beh = "succeed" ->
               [type |-> "success",
                body |-> Obj([sum |-> Num(c.raw.f.a.n + c.raw.f.b.n)])]
         [] decodable /\ c.method \in {"Fail", "Relay"} /\ c.beh = "succeed" ->
               [type |-> "success", body |-> Obj([ok |-> Bool(TRUE)])]
         [] decodable /\ c.method = "Relay" /\ c.beh = "failEmptyTag" ->
               [type |-> "failure",
                body |-> Obj([tag |-> Str(""),
                              data |-> Obj([message |-> Str("denied")])])]
         [] decodable /\ c.method = "Fail" /\ c.beh = "failTyped" ->
               [type |-> "failure",
                body |-> Obj([tag |-> Str("DomainError"),
                              data |-> Obj([_tag |-> Str("DomainError"),
                                           message |-> Str("denied")])])]
         [] decodable /\ c.beh \in {"syncThrowBare", "dieBare", "failBare"} ->
               [type |-> "none", body |-> Undef]
         [] OTHER -> [type |-> "defect", body |-> Undef]

\* C3: each finished call was answered with the envelope that belongs to its
\* own payload and implementation (Add {a, b} gets {sum: a + b}), however many
\* other calls were in flight and in whatever order they completed; a call got
\* no envelope only if its own implementation raised an unconvertible value.
C3_ConcurrentCallsIndependent ==
    \A i \in FinishedCalls :
        LET promised == PromisedEnvelope(calls[i])
            got == calls[i].out.value
        IN IF promised.type = "none"
           THEN calls[i].out.kind = "rejected"
           ELSE /\ calls[i].out.kind = "returned"
                /\ EnvelopeType(got) = Str(promised.type)
                /\ promised.type = "success" => Get(got, "data") = promised.body
                /\ promised.type = "failure" => Get(got, "error") = promised.body

\* Two Add calls with distinct inputs were in flight together and finished
\* in the reverse of the order they were made.
C3_Witness ==
    /\ completionOrder = <<2, 1>>
    /\ calls[1].method = "Add" /\ calls[1].beh = "succeed"
    /\ calls[1].raw = Obj([a |-> Num(10), b |-> Num(1)])
    /\ calls[2].method = "Add" /\ calls[2].beh = "succeed"
    /\ calls[2].raw = Obj([a |-> Num(2), b |-> Num(3)])
    /\ Get(calls[1].out.value, "data") = Obj([sum |-> Num(11)])
    /\ Get(calls[2].out.value, "data") = Obj([sum |-> Num(5)])

\* ------------------------------------------------------------------------
\* Claims about the client's callers (SpecClient)
\* ------------------------------------------------------------------------
FinishedClientCalls == {i \in ClientCallIds : ccalls[i].pc = "done"}

DefectCodes ==
    {"request_encoding_failed", "invoke_failed", "invalid_response_envelope",
     "success_payload_decoding_failed", "failure_payload_decoding_failed",
     "noerror_contract_violation", "legacy_decode_failed", "remote_defect"}

\* The call failed with an RpcDefectError
IsDefect(c) ==
    /\ c.out.kind = "failure"
    /\ c.out.value.k = "error"
    /\ c.out.value.name = "RpcDefectError"

\* The code of the RpcDefectError a call failed with ("none" for any other
\* outcome and for an RpcDefectError that has no code)
DefectCode(c) ==
    IF IsDefect(c) /\ CodeOf(c.out.value) # Undef
    THEN CodeOf(c.out.value).s
    ELSE "none"

\* C2: every finished call made through a caller ended in one of three ways:
\* it succeeded with a value of the method's result type, it failed with an
\* error of the method's declared error type, or it failed with an
\* RpcDefectError whose code is one of the eight stage codes; the code is
\* request_encoding_failed exactly when the call never reached invoke.
C2_CallerOutcomeIsValueTypedErrorOrDefect ==
    \A i \in FinishedClientCalls :
        LET out == ccalls[i].out
            m == ccalls[i].method
        IN \/ out.kind = "success" /\ IsType(MethodRes(m), out.value)
           \/ out.kind = "failure" /\ IsType(MethodErr(m), out.value)
           \/ /\ IsDefect(ccalls[i])
              /\ DefectCode(ccalls[i]) \in DefectCodes
              /\ (DefectCode(ccalls[i]) = "request_encoding_failed")
                     <=> (ccalls[i].encoded = Undef)

\* ------------------------------------------------------------------------
\* Claims about the event publisher (SpecPublisher)
\* ------------------------------------------------------------------------
QueuedPayloads == [i \in DOMAIN queue |-> queue[i].payload]

\* C4: while no drain pass has taken an item and the publisher is not
\* disposed, N publish() calls that have all returned, into a queue of
\* capacity K < N, leave exactly K items queued, a drop counter of N - K, and
\* the last K published payloads in the queue, in publish order.
C4_DropOldestKeepsMostRecent ==
    (~drained /\ ~pubDisposed /\ pending = <<>> /\ Len(published) > maxQueueSize) =>
        /\ stats.queued = maxQueueSize
        /\ stats.dropped = Len(published) - maxQueueSize
        /\ QueuedPayloads =
               SubSeq(published, Len(published) - maxQueueSize + 1, Len(published))

\* The position of a payload in the publish sequence
PublishIndex(payload) == CHOOSE j \in DOMAIN published : published[j] = payload

\* C5: the payloads the target's send accepted are published payloads, appear
\* in the order they were published, and none of them is a payload that was
\* evicted from a full queue.
C5_SentIsOrderedSubsequenceOfPublished ==
    /\ \A i \in DOMAIN sent : \E j \in DOMAIN published : published[j] = sent[i]
    /\ \A i, j \in DOMAIN sent :
           i < j => PublishIndex(sent[i]) < PublishIndex(sent[j])
    /\ \A i \in DOMAIN sent : sent[i] \notin evicted

\* C6: the queue never holds more than maxQueueSize items.
C6_QueueNeverExceedsCapacity == stats.queued <= maxQueueSize

\* The pass was ended by an exception of getWindow() or isDestroyed(), which
\* dispatch calls outside its try blocks
PassAbortedByWindow == pass.outcome = "window_threw"

\* C7: when a drain pass in which the target's send threw for an item has
\* ended, every item that was queued behind that item was handed to dispatch
\* in that same pass.
C7_SendFailureDoesNotHaltDrain ==
    (~draining /\ pass.sendThrew) => pass.behind \subseteq pass.dispatched

\* ------------------------------------------------------------------------
\* Claims about the endpoint's lifecycle (SpecEndpoint)
\* ------------------------------------------------------------------------
Handled(op) == {op.handled[i] : i \in DOMAIN op.handled}

\* C8: after a start() that threw while registering channels, the endpoint
\* is not running and none of the channels that start() registered is still
\* registered.
C8_StartRollsBackOnFailure ==
    (lastOp.op = "start" /\ lastOp.result = "threw" /\ lastOp.handled # <<>>) =>
        /\ ~isRunning
        /\ Handled(lastOp) \cap handlers = {}

\* C9: after a stop() in which removeHandler threw, removeHandler was called
\* for every channel and the endpoint is not running.
C9_StopIsBestEffort ==
    (lastOp.op = "stop" /\ lastOp.result = "threw") =>
        /\ lastOp.removed = Channels
        /\ ~isRunning

\* C10: once dispose() has been called the endpoint is disposed, whether or
\* not unregistration threw, and every later start() fails with the
\* already-disposed error.
C10_DisposeIsFinalEvenWhenStopThrows ==
    /\ disposeCalled => disposed
    /\ (disposeCalled /\ lastOp.op = "start") =>
           (lastOp.result = "threw" /\ lastOp.error = DisposedError)

\* C11: Disposed is terminal.  Once dispose() has been called the endpoint
\* is never running again, and every later lifecycle call leaves the
\* registrar alone: it calls neither handle nor removeHandler and changes
\* neither the registered channels nor isRunning(); a later start() throws
\* the already-disposed error, a later stop() or dispose() returns normally.
C11_DisposedIsTerminal ==
    /\ [](disposeCalled => ~isRunning)
    /\ [][disposeCalled =>
             /\ running' = running
             /\ handlers' = handlers
             /\ lastOp'.handled = <<>> /\ lastOp'.removed = <<>>
             /\ lastOp'.op = "start" =>
                    (lastOp'.result = "threw" /\ lastOp'.error = DisposedError)
             /\ lastOp'.op # "start" => lastOp'.result = "ok"]_vars

\* ------------------------------------------------------------------------
\* Claims about the classification of outcomes (SpecListener)
\* ------------------------------------------------------------------------
\* The request of call c decoded and its implementation returned an effect
ReachedEffect(c) ==
    /\ IsEncoded(MethodReq(c.method), c.raw)
    /\ ~implementation(c.method, c.beh, c.input).threw

\* The Exit of the effect that the implementation of call c returned
ExitOf(c) == implementation(c.method, c.beh, c.input).exit

\* C19: every finished call was answered with one envelope that matches its
\* outcome: a success whose value the result schema encodes gets type
\* success with the encoded value; a typed failure that the declared error
\* schema encodes gets type failure with the tag extractErrorTag gives and
\* the encoded failure; every other outcome gets type defect.
C19_OutcomeDeterminesEnvelope ==
    \A i \in FinishedCalls :
        LET c == calls[i]
            m == c.method
            got == c.out.value
        IN /\ c.out.kind = "returned"
           /\ IF ReachedEffect(c) /\ ExitOf(c).tag = "Success"
                 /\ encodeSync(MethodRes(m), ExitOf(c).value).ok
              THEN got = Obj([type |-> Str("success"),
                              data |-> encodeSync(MethodRes(m), ExitOf(c).value).value])
              ELSE IF ReachedEffect(c) /\ ExitOf(c).cause = "Fail"
                      /\ ~isNoErrorSchema(MethodErr(m))
                      /\ encodeSync(MethodErr(m), ExitOf(c).value).ok
              THEN got = Obj([type |-> Str("failure"),
                              error |-> Obj([tag |-> Str(extractErrorTag(ExitOf(c).value)),
                                             data |-> encodeSync(MethodErr(m),
                                                                 ExitOf(c).value).value])])
              ELSE EnvelopeType(got) = Str("defect")

\* C20: a finished call whose implementation failed with a typed failure on
\* a method that declares no error was answered with a defect envelope whose
\* message says that the method declares NoError, and no encoding of the
\* failure was attempted (no protocol-error diagnostic about its value).
C20_TypedFailureOnNoErrorIsDefect ==
    \A i \in FinishedCalls :
        LET c == calls[i]
        IN (ReachedEffect(c) /\ ExitOf(c).cause = "Fail"
              /\ isNoErrorSchema(MethodErr(c.method))) =>
             /\ c.out.kind = "returned"
             /\ EnvelopeType(c.out.value) = Str("defect")
             /\ formatUnknown(ExitOf(c).value).ok
             /\ Get(c.out.value, "message") =
                    Str("RPC " \o c.method
                        \o " returned a typed failure, but method declares NoError: "
                        \o formatUnknown(ExitOf(c).value).value)
             /\ \A j \in DOMAIN epDiagLog :
                    ~(/\ epDiagLog[j].hook = "onProtocolError"
                      /\ epDiagLog[j].method = c.method
                      /\ epDiagLog[j].response = ExitOf(c).value)

\* ------------------------------------------------------------------------
\* Claims about the publisher's lifecycle and accounting (SpecPublisher)
\* ------------------------------------------------------------------------
\* What the publisher's own code reads and writes
publisherState ==
    <<queue, dropped, pubRunning, pubDisposed, draining, drainScheduled, microtasks>>

\* C12: stop() on a publisher that is not running, dispose() on a disposed
\* publisher and start() on a running publisher change nothing and return
\* normally; once the publisher is disposed it is never running again and
\* every start() throws.
C12_PublisherLifecycleIsIdempotentAndTerminal ==
    /\ [](pubDisposed => ~pubRunning)
    /\ [][/\ (pubLast'.op = "stop" /\ ~pubRunning) =>
                (UNCHANGED publisherState /\ ~pubLast'.threw)
          /\ (pubLast'.op = "dispose" /\ pubDisposed) =>
                (UNCHANGED publisherState /\ ~pubLast'.threw)
          /\ (pubLast'.op = "start" /\ pubRunning) =>
                (UNCHANGED publisherState /\ ~pubLast'.threw)
          /\ (pubLast'.op = "start" /\ pubDisposed) =>
                (UNCHANGED publisherState /\ pubLast'.threw)]_vars

\* start() was called on a disposed publisher that had been published to,
\* and threw.
C12_Witness ==
    /\ pubDisposed /\ ~pubRunning
    /\ pubLast = [threw |-> TRUE, op |-> "start"]
    /\ Len(published) >= 1

\* C13: dispose() empties the queue and passes nothing to the target; from
\* then on the queue stays empty, stats() never changes (a publish() changes
\* neither queued nor dropped) and nothing is passed to the target's send.
C13_DisposedPublisherStaysEmptyAndSilent ==
    /\ [](pubDisposed => stats.queued = 0)
    /\ [][/\ (~pubDisposed /\ pubDisposed') => (queue' = <<>> /\ sent' = sent)
          /\ pubDisposed => (stats' = stats /\ sent' = sent)]_vars

\* The step ends a call of enqueue: the item is pushed and publish()
\* returns, either in the step of the call or, when the call stood inside
\* onDroppedEvent, in the step in which the callback ends
EnqueueReturns ==
    \/ Len(pending') < Len(pending)
    \/ Len(published') > Len(published) /\ pending' = pending /\ ~pubDisposed

\* The payload of the item that a step with EnqueueReturns pushes
Pushed ==
    IF Len(pending') < Len(pending)
    THEN pending[Len(pending)].payload
    ELSE published'[Len(published')]

DispatchStep == pass'.dispatched # pass.dispatched

\* The diagnostics of the step hold a context of the given hook
SeenHook(hook) == \E i \in DOMAIN pubSeen' : pubSeen'[i].hook = hook

\* The diagnostics of the step hold a dropped-event context with the given
\* reason that carries the counts stats() returns after the step
SeenDrop(reason) ==
    \E i \in DOMAIN pubSeen' :
        /\ pubSeen'[i].hook = "onDroppedEvent"
        /\ pubSeen'[i].reason = reason
        /\ pubSeen'[i].queued = Len(queue')
        /\ pubSeen'[i].dropped = dropped'

\* C15: when the target's send throws for an item, the drop counter goes up
\* by one and, with diagnostics callbacks installed, the dispatch-failure
\* callback and the dropped-event callback with reason dispatch_failed and
\* the current counts are called.
C15_SendFailureCountsAsDrop ==
    [][(DispatchStep /\ pass'.outcome = "dispatch_failed") =>
          /\ dropped' = dropped + 1
          /\ pubDiag # "absent" =>
                (SeenHook("onDispatchFailure") /\ SeenDrop("dispatch_failed"))]_vars

\* C16: when the target accessor returns no target or a destroyed one, the
\* item is discarded, the drop counter goes up by one and, with diagnostics
\* callbacks installed, the dropped-event callback with reason
\* window_unavailable and the current counts is called.
C16_UnavailableWindowCountsAsDrop ==
    [][(DispatchStep /\ pass'.outcome = "window_unavailable") =>
          /\ queue' = Tail(queue) /\ sent' = sent
          /\ dropped' = dropped + 1
          /\ pubDiag # "absent" => SeenDrop("window_unavailable")]_vars

\* C17: for a publisher that is not disposed, whenever no drain pass is in
\* progress every published item is accounted for: it is queued, counted as
\* dropped, or was accepted by the target's send.
C17_EveryPublishedItemIsAccountedFor ==
    (~pubDisposed /\ ~draining) =>
        Len(published) = stats.queued + stats.dropped + Len(sent)

\* C18: no step of the publisher (publish, start, stop, dispose, a drain
\* turn) lowers the drop counter.
C18_DroppedNeverDecreases == [][stats'.dropped >= stats.dropped]_vars

\* The counter was raised by an eviction and by a payload that could not be
\* encoded, and the publisher was then disposed with the counter kept.
C18_Witness ==
    /\ pubDisposed
    /\ pubLast = [threw |-> FALSE, op |-> "dispose"]
    /\ evicted # {}
    /\ pass.outcome = "encoding_failed"
    /\ stats.dropped >= 2

\* ---------------------------------------------------------------------------
\* Claims about the client's classification of responses (SpecClient)
\* ---------------------------------------------------------------------------

\* The finished calls whose invoke promise resolved (ccalls[i].raw is the raw
\* response)
ResolvedClientCalls == {i \in FinishedClientCalls : ccalls[i].settled = "resolved"}

\* The hooks of the diagnostics contexts a call's last step produced
HooksSeen(c) == {c.out.seen[j].hook : j \in 1..Len(c.out.seen)}

\* The call received a failure envelope for a method that declares no error
NoErrorFailure(c) ==
    /\ MethodErr(c.method) = "Never"
    /\ parseRpcResponseEnvelope(c.raw) # Null
    /\ Get(parseRpcResponseEnvelope(c.raw), "type") = Str("failure")

\* C21: when a method that declares no error receives a failure envelope, the
\* call fails with an RpcDefectError whose code is noerror_contract_violation;
\* the failure payload is not decoded (no domain error, no decoding-failure
\* defect, no decode-failure diagnostic).
C21_FailureEnvelopeOnNoErrorIsContractViolation ==
    \A i \in ResolvedClientCalls :
        NoErrorFailure(ccalls[i]) =>
            /\ IsDefect(ccalls[i])
            /\ DefectCode(ccalls[i]) = "noerror_contract_violation"
            /\ ccalls[i].out.seen = <<>>

\* The call reported the payload that did not decode to an installed
\* diagnostics callback, once, as a decode failure of the response
ReportedResponseDecodeFailure(c, payload, cause) ==
    IF clDiag = "absent"
    THEN c.out.seen = <<>>
    ELSE /\ Len(c.out.seen) = 1
         /\ c.out.seen[1].hook = "onDecodeFailure"
         /\ c.out.seen[1].scope = "rpc-response"
         /\ c.out.seen[1].name = c.method
         /\ c.out.seen[1].payload = payload
         /\ c.out.seen[1].cause = cause

\* The outcome of call c is the classification of the envelope e for method m:
\* a success envelope gives its decoded data, or a defect and a decode-failure
\* diagnostic for its data; a failure envelope the decoded domain error, a
\* defect and a decode-failure diagnostic for its error, or (for a method
\* without errors) a defect; a defect envelope a defect.
ClassifiedAsEnvelope(c, e) ==
    LET m == c.method
        data == decodeUnknownSync(MethodRes(m), Get(e, "data"))
        error == decodeUnknownSync(MethodErr(m), Get(Get(e, "error"), "data"))
    IN CASE Get(e, "type") = Str("success") ->
               IF data.ok
               THEN c.out.kind = "success" /\ c.out.value = data.value
                                           /\ c.out.seen = <<>>
               ELSE /\ IsDefect(c)
                    /\ ReportedResponseDecodeFailure(c, Get(e, "data"), data.value)
         [] Get(e, "type") = Str("failure") ->
               IF MethodErr(m) = "Never"
               THEN IsDefect(c) /\ c.out.seen = <<>>
               ELSE IF error.ok
               THEN c.out.kind = "failure" /\ c.out.value = error.value
                                           /\ c.out.seen = <<>>
               ELSE /\ IsDefect(c)
                    /\ ReportedResponseDecodeFailure(c, Get(e, "error"), error.value)
         [] Get(e, "type") = Str("defect") ->
               IsDefect(c) /\ c.out.seen = <<>>

\* C22: in dual mode the envelope interpretation comes first: a raw response
\* that parses as an envelope is classified as that envelope, whether or not
\* it would also decode as a legacy Exit and whether or not the envelope's
\* payload decodes; the legacy path (its outcome, its protocol-error
\* diagnostic) is never taken.
C22_DualModeTriesEnvelopeFirst ==
    \A i \in ResolvedClientCalls :
        (decodeMode = "dual" /\ parseRpcResponseEnvelope(ccalls[i].raw) # Null) =>
            /\ ClassifiedAsEnvelope(ccalls[i], parseRpcResponseEnvelope(ccalls[i].raw))
            /\ "onProtocolError" \notin HooksSeen(ccalls[i])

\* In dual mode a call of Add settled with a value that parses as a success
\* envelope whose data does not decode and that is also a legacy Exit.Success
\* that does decode; the call failed
C22_Witness ==
    \E i \in ResolvedClientCalls :
        /\ decodeMode = "dual"
        /\ parseRpcResponseEnvelope(ccalls[i].raw) # Null
        /\ decodeLegacyExit(ccalls[i].method, ccalls[i].raw).kind = "success"
        /\ ~decodeUnknownSync(MethodRes(ccalls[i].method),
                              Get(ccalls[i].raw, "data")).ok
        /\ IsDefect(ccalls[i])

\* C23: in envelope mode a raw response that parseRpcResponseEnvelope rejects,
\* a well-formed legacy Exit included, fails the call with an RpcDefectError
\* of code invalid_response_envelope, and an
\* installed diagnostics callback gets exactly one context, for
\* onProtocolError, with the method name and the raw response; the outcome is
\* never the one of the legacy decoding.
C23_EnvelopeModeRejectsNonEnvelopes ==
    \A i \in ResolvedClientCalls :
        (decodeMode = "envelope" /\ parseRpcResponseEnvelope(ccalls[i].raw) = Null) =>
            /\ DefectCode(ccalls[i]) = "invalid_response_envelope"
            /\ IF clDiag = "absent"
               THEN ccalls[i].out.seen = <<>>
               ELSE /\ Len(ccalls[i].out.seen) = 1
                    /\ ccalls[i].out.seen[1].hook = "onProtocolError"
                    /\ ccalls[i].out.seen[1].method = ccalls[i].method
                    /\ ccalls[i].out.seen[1].response = ccalls[i].raw
                    /\ ccalls[i].out.seen[1].cause = ccalls[i].out.value

\* The calls made so far whose request does not encode
UnencodableCalls ==
    {i \in ClientCallIds :
        /\ ccalls[i].pc # "idle"
        /\ ~encodeSync(MethodReq(ccalls[i].method), caller(ccalls[i].args)).ok}

\* C24: a call whose request does not encode is finished at once and never
\* settled by the transport: invoke has been called once for each call whose
\* request did encode and for no other; the call failed with an
\* RpcDefectError of code request_encoding_failed, and an installed diagnostics callback got exactly one context, for
\* onDecodeFailure with scope rpc-request, the method name and the input.
C24_RequestEncodingFailureNeverReachesInvoke ==
    /\ Len(invocations) =
           Cardinality({i \in ClientCallIds : ccalls[i].pc # "idle"} \ UnencodableCalls)
    /\ \A i \in UnencodableCalls :
           LET c == ccalls[i]
           IN /\ c.pc = "done"
              /\ c.settled = "none"
              /\ DefectCode(c) = "request_encoding_failed"
              /\ IF clDiag = "absent"
                 THEN c.out.seen = <<>>
                 ELSE /\ Len(c.out.seen) = 1
                      /\ c.out.seen[1].hook = "onDecodeFailure"
                      /\ c.out.seen[1].scope = "rpc-request"
                      /\ c.out.seen[1].name = c.method
                      /\ c.out.seen[1].payload = caller(c.args)

\* ---------------------------------------------------------------------------
\* Claims about the diagnostics guard
\* ---------------------------------------------------------------------------

\* What an operation returned or raised, without the diagnostics contexts
Outcome(r) == [kind |-> r.kind, value |-> r.value]

\* The result record of a publisher operation without the diagnostics contexts
WithoutSeen(r) == [x \in DOMAIN r \ {"seen"} |-> r[x]]

\* The listener responds the same for every behaviour of the diagnostics
\* callbacks, before and after the implementation's effect is awaited
ListenerIgnoresDiagnostics ==
    \A d \in DiagModes, m \in MethodSet :
        \A raw \in RawPayloads(m), beh \in BehavioursOf(m) :
            LET a == handleRpcRequestSync(m, raw, beh, d)
                b == handleRpcRequestSync(m, raw, beh, "absent")
                exit == implementation(m, beh, b.input).exit
            IN /\ a.done = b.done
               /\ a.input = b.input
               /\ Outcome(a.out) = Outcome(b.out)
               /\ ~b.done =>
                      Outcome(handleRpcRequestExit(m, exit, d))
                          = Outcome(handleRpcRequestExit(m, exit, "absent"))

\* A caller ends the same for every behaviour of the diagnostics callbacks:
\* at request encoding, when invoke rejects, and for every response
ClientIgnoresDiagnostics ==
    \A d \in DiagModes, m \in ClientMethods :
        /\ \A args \in CallerArgs(m) :
               LET a == callRequest(m, caller(args), d)
                   b == callRequest(m, caller(args), "absent")
               IN /\ a.done = b.done
                  /\ a.encoded = b.encoded
                  /\ Outcome(a.out) = Outcome(b.out)
        /\ \A cause \in InvokeRejections :
               Outcome(callInvokeFailed(m, cause, d))
                   = Outcome(callInvokeFailed(m, cause, "absent"))
        /\ \A raw \in Responses, mode \in DecodeModes :
               Outcome(callResponse(m, raw, mode, d))
                   = Outcome(callResponse(m, raw, mode, "absent"))

\* In the publisher's current state, publishing the next item and dispatching
\* the head of the queue change the state the same way for every behaviour
\* of the diagnostics callbacks, and raise nothing but what getWindow() or
\* isDestroyed() threw
PublisherIgnoresDiagnostics ==
    \A d \in DiagModes :
        /\ \A ok \in BOOLEAN :
               LET item == QueueItem(Len(published) + 1, ok)
               IN /\ WithoutSeen(enqueue(item, d)) = WithoutSeen(enqueue(item, "absent"))
                  /\ ~enqueue(item, d).threw
        /\ Len(queue) > 0 =>
               \A win \in WindowStates :
                   /\ WithoutSeen(dispatch(Head(queue), win, Len(queue) - 1, dropped, d))
                          = WithoutSeen(dispatch(Head(queue), win, Len(queue) - 1,
                                                 dropped, "absent"))
                   /\ dispatch(Head(queue), win, Len(queue) - 1, dropped, d).threw
                          => win \in WindowThrows

\* C25: diagnostics callbacks are advisory.  What the listener responds, how
\* a caller ends, and how publish and dispatch change the publisher's queue,
\* counter and scheduling are the same whether the callback is absent,
\* returns or throws; no publish and no drain step of the publisher has let
\* an exception of a callback out (the one exception that leaves a drain step
\* is the window accessor's own).
C25_DiagnosticsAreAdvisory ==
    /\ ListenerIgnoresDiagnostics
    /\ ClientIgnoresDiagnostics
    /\ PublisherIgnoresDiagnostics
    /\ (pubLast.op \in {"publish", "drain"} /\ pubLast.threw) => PassAbortedByWindow

\* A publisher whose callbacks throw has just dispatched an item, its
\* callbacks were called for it, and the drain step raised nothing
C25_Witness ==
    /\ pubDiag = "throws"
    /\ pubLast.op = "drain"
    /\ pubSeen # <<>>
    /\ ~pubLast.threw
    /\ dropped > 0

\* ---------------------------------------------------------------------------
\* Claims about the envelope parser (SpecClient: invoke resolves with a value
\* and call parses it)
\* ---------------------------------------------------------------------------

\* e is an envelope as the protocol constructs it: one of the three shapes
\* with exactly its declared fields (the cause of a defect is optional)
ValidEnvelope(e) ==
    /\ e.k = "obj"
    /\ \/ /\ DOMAIN e.f = {"type", "data"}
          /\ e.f.type = Str("success")
       \/ /\ DOMAIN e.f = {"type", "error"}
          /\ e.f.type = Str("failure")
          /\ e.f.error.k = "obj"
          /\ DOMAIN e.f.error.f = {"tag", "data"}
          /\ isString(e.f.error.f.tag)
       \/ /\ DOMAIN e.f \in {{"type", "message"}, {"type", "message", "cause"}}
          /\ e.f.type = Str("defect")
          /\ isString(e.f.message)

\* a and b are envelopes with the same value in every field of an envelope;
\* reading a field that is absent gives undefined
SameEnvelope(a, b) ==
    /\ a.k = "obj" /\ b.k = "obj"
    /\ \A key \in {"type", "data", "message", "cause"} : Get(a, key) = Get(b, key)
    /\ hasOwn(a, "data") = hasOwn(b, "data")
    /\ hasOwn(a, "error") = hasOwn(b, "error")
    /\ hasOwn(a, "error") =>
           /\ Get(a, "error").k = "obj" /\ Get(b, "error").k = "obj"
           /\ DOMAIN Get(a, "error").f = DOMAIN Get(b, "error").f
           /\ \A key \in {"tag", "data"} :
                  Get(Get(a, "error"), key) = Get(Get(b, "error"), key)
    /\ DOMAIN a.f \ {"cause"} = DOMAIN b.f \ {"cause"}

\* C26: parsing a valid envelope gives the envelope back.  For every response
\* that is a valid envelope (success with any data, null and undefined
\* included; failure with a string tag and any data; defect with a string
\* message, with or without a cause) the parsed envelope has the same type and
\* the same fields with the same values, and it is the very same object value
\* unless the response is a defect without a cause key, whose parsed form
\* carries the cause as undefined.
C26_ParseReturnsValidEnvelopeUnchanged ==
    \A i \in ResolvedClientCalls :
        ValidEnvelope(ccalls[i].raw) =>
            /\ ccalls[i].envelope # Null
            /\ SameEnvelope(ccalls[i].envelope, ccalls[i].raw)
            /\ (Get(ccalls[i].raw, "type") # Str("defect") \/ hasOwn(ccalls[i].raw, "cause"))
                   => ccalls[i].envelope = ccalls[i].raw

\* A call has settled with a defect envelope that has no cause key, and the
\* parser returned an envelope for it
C26_Witness ==
    \E i \in ResolvedClientCalls :
        /\ ValidEnvelope(ccalls[i].raw)
        /\ Get(ccalls[i].raw, "type") = Str("defect")
        /\ ~hasOwn(ccalls[i].raw, "cause")
        /\ ccalls[i].envelope # Null

\* The value has one of the three shapes the parser accepts: a record with
\* type "success" and a data key; with type "failure" and an error record
\* that has a string tag and a data key; or with type "defect" and a string
\* message
EnvelopeShaped(v) ==
    /\ v.k \in {"obj", "error", "cause", "bare"}
    /\ \/ Get(v, "type") = Str("success") /\ v.k = "obj" /\ "data" \in DOMAIN v.f
       \/ /\ Get(v, "type") = Str("failure")
          /\ Get(v, "error").k \in {"obj", "error", "cause", "bare"}
          /\ Get(Get(v, "error"), "tag").k = "str"
          /\ Get(v, "error").k = "obj" /\ "data" \in DOMAIN Get(v, "error").f
       \/ Get(v, "type") = Str("defect") /\ Get(v, "message").k = "str"

\* C27: the parser returns null exactly for the values that are not
\* envelope-shaped (a non-record, no string type, an unknown type, success
\* without a data key, failure without an error record holding a string tag
\* and a data key, defect without a string message), and what it returns
\* otherwise is an envelope of the value's type; it returns for every value.
C27_ParseRejectsExactlyTheInvalidShapes ==
    \A i \in ResolvedClientCalls :
        /\ (ccalls[i].envelope = Null) <=> ~EnvelopeShaped(ccalls[i].raw)
        /\ ccalls[i].envelope # Null =>
               /\ ValidEnvelope(ccalls[i].envelope)
               /\ Get(ccalls[i].envelope, "type") = Get(ccalls[i].raw, "type")

\* A call has settled with a success envelope that lacks its data key, and
\* the parser returned null
C27_Witness ==
    \E i \in ResolvedClientCalls :
        /\ Get(ccalls[i].raw, "type") = Str("success")
        /\ ~hasOwn(ccalls[i].raw, "data")
        /\ ccalls[i].envelope = Null

\* ---------------------------------------------------------------------------
\* Claims about construction (SpecConstruction)
\* ---------------------------------------------------------------------------

\* The constructor calls made so far for one constructor
Constructions(op) == {i \in DOMAIN created : created[i].op = op}

\* The value is a whole number of at least 1
PositiveInteger(v) == v.k = "num" /\ v.n >= 1

\* The value is a finite number of at least 1, whole or not
FiniteAtLeastOne(v) == (v.k = "num" /\ v.n >= 1) \/ (v.k = "half" /\ v.n >= 2)

\* The whole part of a finite number of at least 1
WholePart(v) == IF v.k = "num" THEN v.n ELSE (v.n - (v.n % 2)) \div 2

\* C28 as stated: createEventPublisher succeeds exactly when maxQueueSize is
\* omitted (capacity 1000) or a positive finite integer (that capacity); for
\* every other value, a non-integer included, it throws and no publisher is
\* created.
C28_QueueSizeMustBePositiveInteger ==
    \A i \in Constructions("createEventPublisher") :
        LET c == created[i]
        IN /\ c.ok <=> (c.input = Undef \/ PositiveInteger(c.input))
           /\ c.ok => c.result = (IF c.input = Undef THEN Num(1000) ELSE c.input)
           /\ ~c.ok => c.value.k = "error" /\ c.result = Undef

\* C28, amended: createEventPublisher succeeds exactly when maxQueueSize is
\* omitted (capacity 1000) or a finite number of at least 1, whose whole part
\* is the capacity; for every other value (zero, negative, below 1, NaN,
\* infinite) it throws an Error and no publisher is created.
C28_QueueSizeMustBeFiniteAtLeastOne ==
    \A i \in Constructions("createEventPublisher") :
        LET c == created[i]
        IN /\ c.ok <=> (c.input = Undef \/ FiniteAtLeastOne(c.input))
           /\ c.ok => c.result = (IF c.input = Undef THEN Num(1000)
                                  ELSE Num(WholePart(c.input)))
           /\ ~c.ok => /\ c.value.k = "error"
                       /\ c.value.name = "Error"
                       /\ c.result = Undef

\* A publisher was created with maxQueueSize: 2.5 and has capacity 2, and a
\* construction with maxQueueSize: 0.5 threw
C28_Witness ==
    /\ \E i \in Constructions("createEventPublisher") :
           created[i].input = Half(5) /\ created[i].ok /\ created[i].result = Num(2)
    /\ \E i \in Constructions("createEventPublisher") :
           created[i].input = Half(1) /\ ~created[i].ok

\* The implementations object has an own function-valued property for the
\* method
Implemented(implementations, name) ==
    \E i \in DOMAIN implementations :
        implementations[i].name = name /\ implementations[i].type = "function"

\* C29: createRpcEndpoint throws exactly when some method of the contract has
\* no implementation or some key of the implementations object is not a
\* method of the contract; it makes no call on the registrar, so that after a
\* construction that threw no channel is registered.
C29_ConstructionValidatesImplementations ==
    \A i \in Constructions("createRpcEndpoint") :
        LET c == created[i]
            methods == {c.input.methods[j] : j \in DOMAIN c.input.methods}
            keys == {c.input.implementations[j].name :
                        j \in DOMAIN c.input.implementations}
        IN /\ ~c.ok <=>
                  \/ \E m \in methods : ~Implemented(c.input.implementations, m)
                  \/ \E key \in keys : key \notin methods
           /\ ~c.ok => c.value.k = "error" /\ c.result = <<>>
           /\ handleCalls = <<>> /\ handlers = {}

\* ---------------------------------------------------------------------------
\* Claims about the endpoint's registrations (SpecEndpoint)
\* ---------------------------------------------------------------------------

\* A call on a running endpoint leaves it running with no call on the
\* registrar, a stop() on a stopped endpoint leaves it stopped with no call
\* on the registrar
NoOpCallsMakeNoRegistrarCall ==
    /\ (lastOp'.op = "start" /\ running) =>
           /\ handleCalls' = handleCalls
           /\ removeCalls' = removeCalls
           /\ running'
    /\ (lastOp'.op = "stop" /\ ~running) =>
           /\ handleCalls' = handleCalls
           /\ removeCalls' = removeCalls
           /\ ~running'

\* The step that takes the endpoint from stopped to running calls handle
\* exactly once for each method channel and never removeHandler, and the
\* step that takes it from running to stopped calls removeHandler exactly
\* once for each method channel and never handle
TransitionsCallOncePerChannel ==
    /\ (~running /\ running') =>
           /\ handleCalls' = handleCalls \o Channels
           /\ removeCalls' = removeCalls
    /\ (running /\ ~running') =>
           /\ removeCalls' = removeCalls \o Channels
           /\ handleCalls' = handleCalls

\* C30: start() on a running endpoint and stop() on a stopped endpoint make
\* no call on the registrar; the step that takes the endpoint from stopped to
\* running calls handle exactly once for each method channel and never
\* removeHandler, and the step that takes it from running to stopped calls
\* removeHandler exactly once for each method channel and never handle.
C30_NoOpCallsLeaveRegistrarAlone ==
    [][NoOpCallsMakeNoRegistrarCall /\ TransitionsCallOncePerChannel]_vars

\* ------------------------------------------------------------------------
\* Claims about drain scheduling (SpecPublisher, SpecPublisherLive)
\* ------------------------------------------------------------------------
\* C31: for any interleaving of publish(), start(), stop(), dispose() and
\* microtask execution, at most one drain microtask is pending, the
\* drainScheduled flag is set exactly while it is pending, and no drain
\* microtask is pending while a drain pass is active, so that a second pass
\* cannot begin before the active one has ended.
C31_AtMostOneDrainPassAndOneMicrotask ==
    /\ microtasks <= 1
    /\ drainScheduled <=> microtasks = 1
    /\ draining => microtasks = 0

\* Two items were published to a running publisher before the microtask of
\* the first ran: one microtask is pending, not two.
C31_Witness ==
    /\ pubRunning
    /\ ~draining
    /\ Len(queue) = 2
    /\ pubLast.op = "publish"
    /\ microtasks = 1

\* The publish() calls of the model, by their number
PublishIds == 1..MaxPublish

\* The payloads the n-th publish() call can carry
ItemPayloads(n) == {QueueItem(n, ok).payload : ok \in BOOLEAN}

\* The item of the n-th publish() call is in the queue
InQueue(n) == \E i \in DOMAIN queue : queue[i].payload \in ItemPayloads(n)

\* C32: under the scheduling of microtasks and of drain's loop, every item
\* queued on a running publisher is eventually removed from the queue (or
\* the publisher is stopped or disposed), and if the publisher stays running
\* from some point on, stats().queued is eventually 0 for good once no
\* further item is published.
C32_QueueEventuallyDrains ==
    /\ \A n \in PublishIds :
          (pubRunning /\ ~pubDisposed /\ InQueue(n)) ~> (~InQueue(n) \/ ~pubRunning)
    /\ <>[]pubRunning => <>[](stats.queued = 0)

\* Two items were published to a running publisher; one reached the target,
\* the other could not be encoded, and the queue is empty with no pass
\* active or pending.
C32_Witness ==
    /\ pubRunning /\ ~pubDisposed /\ ~draining
    /\ microtasks = 0
    /\ Len(published) = 2
    /\ Len(sent) = 1
    /\ dropped = 1
    /\ stats.queued = 0

\* C33: no lost wake-up: whenever the publisher is running, not disposed,
\* has items queued and no drain pass is in progress, a drain microtask is
\* pending (and the drainScheduled flag says so).
C33_NoLostWakeUp ==
    (pubRunning /\ ~pubDisposed /\ Len(queue) > 0 /\ ~draining) =>
        (microtasks = 1 /\ drainScheduled)

\* Items were published while the publisher was stopped, and the start()
\* that followed found them queued and scheduled a drain.
C33_Witness ==
    /\ pubRunning /\ ~pubDisposed /\ ~draining
    /\ pubLast = [threw |-> FALSE, op |-> "start"]
    /\ Len(queue) = 2
    /\ sent = <<>>
    /\ ~drained
    /\ microtasks = 1

\* C34: when stop() or dispose() is called while a drain pass is in
\* progress, the call itself dispatches nothing, stop() leaves the queue as
\* it is and dispose() empties it; from then on that pass hands no further
\* item to dispatch and sends nothing, and its turns leave the queue as it
\* is; and a disposed publisher sends nothing and its queue stays empty.
C34_StopOrDisposeEndsPass ==
    [][/\ (draining /\ pubLast'.op = "stop") =>
             (queue' = queue /\ sent' = sent /\ pass'.dispatched = pass.dispatched)
       /\ (draining /\ pubLast'.op = "dispose") =>
             (queue' = <<>> /\ sent' = sent /\ pass'.dispatched = pass.dispatched)
       /\ (draining /\ pass.stopped) =>
             (sent' = sent /\ pass'.dispatched = pass.dispatched)
       /\ (draining /\ pass.stopped /\ pubLast'.op = "drain") => queue' = queue
       /\ pubDisposed =>
             (queue' = <<>> /\ sent' = sent /\ pass'.dispatched = pass.dispatched)]_vars

\* The n-th publish() call is the latest, was made while a drain pass was
\* in progress, and its item is queued
PublishedDuringPass(n) ==
    /\ draining
    /\ pubLast.op = "publish"
    /\ Len(published) = n
    /\ InQueue(n)

\* The item of the n-th publish() call was handed to dispatch by the drain
\* pass in progress or last finished
Dispatched(n) == pass.dispatched \cap ItemPayloads(n) # {}

\* The item of the n-th publish() call was evicted from a full queue
Evicted(n) == evicted \cap ItemPayloads(n) # {}

\* What C35 says of every step: a publish() made during a pass appends its
\* item behind the items queued (less the oldest when the queue was full),
\* queues no microtask and leaves the pass as it is; the queue keeps the
\* items in the order in which they were appended (a step takes the head,
\* appends at the end, or empties the queue); and a dispatch takes the head
\* of the queue, an item that was not dispatched before.
AppendsBehindWithoutSecondPass ==
    /\ [][\/ queue' \in {queue, <<>>}
          \/ queue # <<>> /\ queue' = Tail(queue)
          \/ /\ Len(queue') >= 1
             /\ \/ SubSeq(queue', 1, Len(queue') - 1) = queue
                \/ /\ queue # <<>>
                   /\ SubSeq(queue', 1, Len(queue') - 1) = Tail(queue)]_vars
    /\ [][/\ (draining /\ ~pubDisposed /\ EnqueueReturns) =>
                (/\ Len(queue') >= 1
                 /\ queue'[Len(queue')].payload = Pushed
                 /\ SubSeq(queue', 1, Len(queue') - 1) =
                        IF Len(pending') = Len(pending) /\ Len(queue) >= maxQueueSize
                        THEN Tail(queue)
                        ELSE queue
                 /\ microtasks' = microtasks
                 /\ draining'
                 /\ pass' = pass
                 /\ sent' = sent)
          /\ (pubLast'.op = "drain" /\ queue' # queue) =>
                (/\ queue' = Tail(queue)
                 /\ \A i \in DOMAIN sent : sent[i] # Head(queue).payload
                 /\ draining => Head(queue).payload \notin pass.dispatched
                 /\ pass'.dispatched =
                        (IF draining THEN pass.dispatched ELSE {})
                            \cup {Head(queue).payload})]_vars

\* C35 as stated: an item published while a drain pass is in progress is
\* appended behind the items already queued, starts no second pass, and is
\* dispatched exactly once, after the items queued before it.
C35_PublishedDuringPassIsDispatchedOnce ==
    /\ AppendsBehindWithoutSecondPass
    /\ \A n \in PublishIds : PublishedDuringPass(n) ~> Dispatched(n)

\* C35, amended: an item published while a drain pass is in progress is
\* appended behind the items already queued, starts no second pass, is never
\* dispatched twice, and is dispatched after the items queued before it
\* unless later publish() calls on a full queue evict it or the publisher is
\* stopped or disposed before its turn.
C35_PublishedDuringPassIsDispatchedOnceUnlessEvicted ==
    /\ AppendsBehindWithoutSecondPass
    /\ \A n \in PublishIds :
          PublishedDuringPass(n) ~> (Dispatched(n) \/ Evicted(n) \/ ~pubRunning)

\* The second item was published from inside the send of the first; the same
\* pass then dispatched it and both reached the target in order.
C35_Witness ==
    /\ draining
    /\ pubLast = [threw |-> FALSE, op |-> "drain"]
    /\ Len(published) = 2
    /\ sent = published
    /\ pass.dispatched = {published[1], published[2]}
    /\ microtasks = 0
    /\ evicted = {}

\* ------------------------------------------------------------------------
\* Claims about the endpoint's registered channels (SpecEndpoint)
\* ------------------------------------------------------------------------
\* C36: as long as the registrar has not thrown, after any sequence of
\* start(), stop() and dispose() calls the channels registered and not yet
\* unregistered are exactly the prefix + method name channels of the
\* contract when isRunning() is true and none when it is false.
C36_RegisteredChannelsMatchIsRunning ==
    ~registrarThrew =>
        /\ isRunning => handlers = ChannelSet
        /\ ~isRunning => handlers = {}

\* ------------------------------------------------------------------------
\* Claims about the envelopes the listener builds (SpecListener)
\* ------------------------------------------------------------------------
NonEmptyString(v) == v.k = "str" /\ v.s # ""

\* The own keys of an envelope
Keys(e) == IF e.k = "obj" THEN DOMAIN e.f ELSE {}

\* C37: every envelope a listener returned has exactly one variant active:
\* type success with data and nothing else, type failure with an error
\* whose tag is a non-empty string, or type defect with a message that is a
\* non-empty string.
C37_ReturnedEnvelopesSatisfyInvariant ==
    \A i \in FinishedCalls :
        calls[i].out.kind = "returned" =>
            LET e == calls[i].out.value
            IN \/ /\ EnvelopeType(e) = Str("success")
                  /\ Keys(e) = {"type", "data"}
               \/ /\ EnvelopeType(e) = Str("failure")
                  /\ Keys(e) = {"type", "error"}
                  /\ Keys(Get(e, "error")) = {"tag", "data"}
                  /\ NonEmptyString(Get(Get(e, "error"), "tag"))
               \/ /\ EnvelopeType(e) = Str("defect")
                  /\ Keys(e) = {"type", "message", "cause"}
                  /\ NonEmptyString(Get(e, "message"))

\* ------------------------------------------------------------------------
\* Claims about the legacy path of dual mode (SpecClient)
\* ------------------------------------------------------------------------
\* The calls that were answered, in dual mode, with a value that is no
\* envelope
LegacyCalls ==
    {i \in ResolvedClientCalls :
        decodeMode = "dual" /\ parseRpcResponseEnvelope(ccalls[i].raw) = Null}

\* C38: in dual mode a response that is not an envelope is decoded as a
\* legacy Exit.  When it decodes, the call is classified by the Exit: a
\* success gives its value, a typed failure the decoded domain error, a die
\* a remote_defect, an interruption (or an empty cause) a remote_defect; and
\* no diagnostics callback is called.  When it does not decode, the call
\* fails with a legacy_decode_failed defect, and onProtocolError is called
\* once with the method, the raw response and that defect (if a callback is
\* installed).
C38_LegacyPathClassifiesByExit ==
    \A i \in LegacyCalls :
        LET c == ccalls[i]
            decoded == decodeExit(c.method, c.raw)
            exit == decoded.value
        IN IF decoded.ok
           THEN /\ c.out.seen = <<>>
                /\ DefectCode(c) # "legacy_decode_failed"
                /\ CASE exit.tag = "Success" ->
                           c.out.kind = "success" /\ c.out.value = exit.value
                     [] exit.tag # "Success" /\ exit.cause = "Fail" ->
                           /\ c.out.kind = "failure"
                           /\ c.out.value = exit.value
                           /\ DefectCode(c) = "none"
                     [] exit.tag # "Success" /\ exit.cause = "Die" ->
                           DefectCode(c) = "remote_defect"
                     [] OTHER ->
                           DefectCode(c) = "remote_defect"
           ELSE /\ DefectCode(c) = "legacy_decode_failed"
                /\ IF clDiag = "absent"
                   THEN c.out.seen = <<>>
                   ELSE /\ Len(c.out.seen) = 1
                        /\ c.out.seen[1].hook = "onProtocolError"
                        /\ c.out.seen[1].method = c.method
                        /\ c.out.seen[1].response = c.raw
                        /\ c.out.seen[1].cause = c.out.value

\* ------------------------------------------------------------------------
\* Claims about the handle of createIpcKit(...).main() (SpecKit)
\* ------------------------------------------------------------------------
\* The step is a call on the handle
KitCall == lifecycleOps' = lifecycleOps + 1

\* C39: isRunning() of the handle is true after a start() that returned and
\* false as soon as either component is not running; a start() that throws
\* because publisher.start() failed after endpoint.start() succeeded has
\* called endpoint.stop() and leaves the endpoint not running; stop() and
\* dispose() call both components, leave the publisher stopped (disposed),
\* and throw exactly when a component threw, with that component's error.
C39_HandleStartRollsBackAndStopAttemptsBoth ==
    /\ [](kitIsRunning <=> (running /\ pubRunning))
    /\ [][KitCall =>
            /\ (kitLast'.op = "start" /\ kitLast'.result = "ok") => kitIsRunning'
            /\ (/\ kitLast'.op = "start"
                /\ kitLast'.result = "threw"
                /\ kitLast'.error = PublisherDisposedError) =>
                   (/\ kitLast'.attempted =
                           <<"endpoint.start", "publisher.start", "endpoint.stop">>
                    /\ ~running'
                    /\ ~kitIsRunning')
            /\ kitLast'.op = "stop" =>
                   (/\ kitLast'.attempted = <<"publisher.stop", "endpoint.stop">>
                    /\ ~pubRunning'
                    /\ lastOp'.op = "stop"
                    /\ kitLast'.result = lastOp'.result
                    /\ kitLast'.error = lastOp'.error)
            /\ kitLast'.op = "dispose" =>
                   (/\ kitLast'.attempted = <<"publisher.dispose", "endpoint.dispose">>
                    /\ pubDisposed' /\ ~pubRunning'
                    /\ lastOp'.op = "dispose"
                    /\ kitLast'.result = lastOp'.result
                    /\ kitLast'.error = lastOp'.error)]_vars

\* ------------------------------------------------------------------------
\* Claims about the event subscriber (SpecSubscriber)
\* ------------------------------------------------------------------------
\* C40: over any sequence of subscribe, returned-unsubscribe and dispose()
\* calls, the transport unsubscribe of a subscription is never invoked
\* twice: not at all while the subscription is active, once when it is not;
\* and dispose() invokes it for every subscription that was still active,
\* whether or not an earlier one threw, leaves no subscription active, and
\* throws exactly when one of them threw, with the error of the first.
C40_TransportUnsubscribeAtMostOnce ==
    /\ [](\A i \in SubIds :
             /\ unsubscribeCalls[i] <= 1
             /\ i \in Active => unsubscribeCalls[i] = 0
             /\ (i <= subscribeCalls /\ i \notin Active) => unsubscribeCalls[i] = 1
             /\ i > subscribeCalls => unsubscribeCalls[i] = 0)
    /\ [][subLast'.op = "dispose" =>
            /\ \A i \in SubIds :
                  unsubscribeCalls'[i] =
                      unsubscribeCalls[i] + (IF i \in Active THEN 1 ELSE 0)
            /\ subscriptions' = <<>>
            /\ subLast'.threw <=> (Active \cap unsubThrows # {})
            /\ subLast'.threw =>
                  \E j \in DOMAIN subscriptions :
                      /\ subscriptions[j] \in unsubThrows
                      /\ \A h \in 1..(j - 1) : subscriptions[h] \notin unsubThrows
                      /\ subLast'.error = UnsubscribeError(subscriptions[j])]_vars

====
